---- MODULE Spec2Model ----
(***************************************************************************)
(* Persistent state engine of Kernel-Add (src/LinuxKernel.py):             *)
(*   DatabaseManager   - packages / dependencies / metadata / hidden_files *)
(*   AddPackageManager - remove (the guarded wrapper of remove_package)    *)
(*   ContainerEngine   - images / containers and the live bridge0 map      *)
(*   KernelAddCLI      - dbfix, dbclean, cclean (direct table clean-ups)   *)
(*   DatabaseManager.repair as its steps; operations on a failing store    *)
(*   AddPackageManager - install, autoremove                               *)
(*   ContainerEngine   - the id loops of create_image / create_container   *)
(*   MiniKernel        - sys_mem_alloc, sys_mem_free                       *)
(* and the command threads of the GUI (src/gui.py).                        *)
(*                                                                         *)
(* A table is a set of rows (records).  A PRIMARY KEY / UNIQUE column is    *)
(* not built into the representation: it holds only as far as the          *)
(* statements that write the table keep it.                                *)
(* An optional value (SQL NULL, Python None) is a set with at most one     *)
(* element: {} is NULL/None, {x} is the value x.                           *)
(***************************************************************************)
EXTENDS Integers, Sequences, FiniteSets, TLC

VARIABLES
    clock,          \* the value time.time() returns now
    packages,       \* table packages
    dependencies,   \* table dependencies
    metadata,       \* table metadata
    hidden_files,   \* table hidden_files
    images,         \* table images
    containers,     \* table containers
    volumes,        \* table volumes
    network,        \* ContainerEngine.network['bridge0']['containers']
    last,           \* the last call: [op, args, ret, ...] (ret as the caller sees it)
    conn,           \* DatabaseManager.conn: "open", "closed" or "none" (None)
    schema,         \* the tables that exist in the database file
    dbfile,         \* what the path db_path holds: "complete", "absent", "partial"
    repair,         \* the position of a running DatabaseManager.repair()
    gen,            \* the position of a running id loop of create_image /
                    \* create_container, with the id it holds
    memory,         \* MiniKernel.state['memory']
    sys_stdout,     \* the stream sys.stdout refers to (gui.py)
    threads,        \* the CommandThreads of the GUI: position, old_stdout, output
    streams,        \* the contents of the io.StringIO each thread created
    ip_log          \* history: the addresses create_container allocated since
                    \* the last removal of a container row, oldest first, and
                    \* whether the containers table was empty when they began

vars == <<clock, packages, dependencies, metadata, hidden_files,
          images, containers, volumes, network, last, conn, schema, dbfile,
          repair, gen, memory, sys_stdout, threads, streams, ip_log>>

pkgTables == <<packages, dependencies>>
miscTables == <<metadata, hidden_files, volumes>>
ctrTables == <<images, containers>>
storeVars == <<conn, schema, dbfile, repair>>
guiVars == <<sys_stdout, threads, streams>>
procVars == <<gen, memory, guiVars>>

------------------------------------------------------------------------------
(* Bounds of the model *)

\* time.time() takes the values 0..MaxClock
MaxClock == 1
\* at most MaxDeps rows are inserted into dependencies
MaxDeps == 3
\* the longest Depends list of the package index
MaxDepends == 2
\* at most MaxReplayFailures lines of a dump fail when repair() replays it
MaxReplayFailures == 1

\* MiniKernel.state['memory'] holds at most MaxBlocks blocks
MaxBlocks == 3
\* the GUI launches at most MaxThreads command threads
MaxThreads == 2

(* Inputs *)

\* package names, in ascending (ORDER BY name) order
PkgNamePool == <<"bash", "openssl", "zlib">>
PkgNames == {"bash", "openssl"}
OrphanNames == {"bash", "openssl", "zlib"}
\* (version, size, filename) of an add call
PkgInputs == { [version |-> "1.0", size |-> 100, filename |-> "a-1.0.apk"],
               [version |-> "2.0", size |-> 200, filename |-> "a-2.0.apk"] }

\* the ids _generate_id('img_') / _generate_id('ctr_') can produce
ImgIds == {"img_a", "img_b"}
CtrIds == {"ctr_a", "ctr_b"}
\* the pids random.randint(1000, 9999) can produce: PidMin .. PidMin+NumPids-1
NumPids == 1
PidMin == 1000
Pids == PidMin..(PidMin + NumPids - 1)
\* image names and tags; container names (one is also a possible id)
ImgNames == {"alpine"}
ImgTags == {"latest"}
CtrNames == {"web", "ctr_a"}
\* image names and tags of the specification of the keys
KeysImgNames == {"alpine", "busybox"}
KeysImgTags == {"latest", "edge"}
\* the answers typed at the prompt of autoremove
AutoremoveAnswers == {"", " ", "y", "Y", "n"}
\* the answers typed at the prompt of dbclean
DbcleanAnswers == {"DELETE EVERYTHING", " DELETE EVERYTHING ", "delete everything", "yes"}
\* hidden paths and contents (bytes)
HiddenPaths == {".config"}
HiddenContents == { <<104, 105>> }
\* the same for the specification of the hidden filesystem: two paths, contents
\* of different lengths, the empty one included
HiddenPathsWide == {".config", ".cache"}
HiddenContentsWide == { <<>>, <<104>>, <<104, 105>> }
\* the operations called on a store that fails, and their arguments
StoreOps == {"get_package", "remove_package", "read_hidden_file",
             "delete_hidden_file", "get_metadata", "create_image",
             "start_container", "stop_container", "inspect_container"}
StoreArgs == {"bash", "web"}
\* the sizes given to sys_mem_alloc
MemSizes == {1, 2}
\* the CommandThread objects of the GUI
Threads == 1..MaxThreads
\* the commands given to exec_container
ExecCommands == {"ls"}
\* size and layers create_image stores
ImageSize == 100000000
ImageLayers == "[\"layer_base\", \"layer_app\", \"layer_config\"]"

None == {}
Some(x) == {x}

\* the tables _init_database creates, and the ones _init_container_tables
\* creates
DatabaseTables == {"packages", "dependencies", "metadata", "hidden_files"}
ContainerTables == {"images", "containers", "volumes"}

\* 1 if flag else 0 (the INTEGER columns auto_installed, simulated)
BoolToInt(flag) == IF flag THEN 1 ELSE 0

NameIdx(n) == CHOOSE i \in 1..Len(PkgNamePool) : PkgNamePool[i] = n

\* the elements of a set of names as a list in ascending order
RECURSIVE SortedNames(_)
SortedNames(S) ==
    IF S = {} THEN <<>>
    ELSE LET m == CHOOSE x \in S : \A y \in S : NameIdx(x) <= NameIdx(y)
         IN <<m>> \o SortedNames(S \ {m})

Range(s) == { s[i] : i \in 1..Len(s) }

\* rep of a call: the call before it was the same call (same operation, same
\* arguments)
NextRep(op, args) == last.op = op /\ last.args = args

\* the record of a call
Call(op, args, ret) ==
    [ op |-> op, args |-> args, ret |-> ret, rep |-> NextRep(op, args) ]
\* the same, with the time.time() the call read
CallAt(op, args, ret) ==
    [ op |-> op, args |-> args, ret |-> ret, rep |-> NextRep(op, args),
      at |-> clock ]
\* the same, with the container row the call resolved (None or Some(row)), as
\* the row was before the call
CallOn(op, args, ret, row) ==
    [ op |-> op, args |-> args, ret |-> ret, rep |-> NextRep(op, args),
      at |-> clock, row |-> row ]

------------------------------------------------------------------------------
(* time *)

Tick ==
    /\ clock < MaxClock
    /\ clock' = clock + 1
    /\ UNCHANGED <<pkgTables, miscTables, ctrTables, network, last, storeVars,
                   procVars, ip_log>>

------------------------------------------------------------------------------
(* DatabaseManager: packages and dependencies *)

PackageRow(name, version, size, filename, now, auto_installed, simulated) ==
    [ name |-> name, version |-> version, size |-> size, filename |-> filename,
      installed_time |-> now,
      auto_installed |-> BoolToInt(auto_installed),
      simulated |-> BoolToInt(simulated) ]

\* SELECT * FROM packages WHERE name = ?
SelectPackage(name) == { r \in packages : r.name = name }

\* get_package: fetchone() of the select, None when there is no row
get_package(name) ==
    /\ \/ /\ SelectPackage(name) = {}
          /\ last' = Call("get_package", <<name>>, None)
       \/ \E row \in SelectPackage(name) :
             last' = Call("get_package", <<name>>, Some(row))
    /\ UNCHANGED <<clock, procVars, storeVars, pkgTables, miscTables, ctrTables, network, ip_log>>

\* a plain INSERT that keeps the row already stored under the name
InsertPackageKeepingOld(row) == packages \cup {row}

\* INSERT OR REPLACE INTO packages: the row of the same primary key is replaced
InsertOrReplacePackage(row) == { r \in packages : r.name # row.name } \cup {row}

\* add_package: INSERT OR REPLACE with time.time() as installed_time, then commit
add_package(name, version, size, filename, auto_installed, simulated) ==
    /\ packages' = InsertOrReplacePackage(
          PackageRow(name, version, size, filename, clock, auto_installed, simulated))
    /\ last' = CallAt("add_package",
                      <<name, version, size, filename, auto_installed, simulated>>, TRUE)
    /\ UNCHANGED <<clock, procVars, storeVars, dependencies, miscTables, ctrTables, network, ip_log>>

\* DELETE FROM packages WHERE name = ?
DeletePackage(name) == { r \in packages : r.name # name }

\* only the edges whose package side is name are deleted
DeleteDependenciesPackageSide(name) ==
    { d \in dependencies : ~(d.package = name) }

\* every edge is deleted
DeleteDependenciesAll(name) == {}

\* DELETE FROM dependencies WHERE package = ? OR depends_on = ?
DeleteDependenciesOf(name) ==
    { d \in dependencies : ~(d.package = name \/ d.depends_on = name) }

\* remove_package: both DELETE statements, then commit
remove_package(name) ==
    /\ packages' = DeletePackage(name)
    /\ dependencies' = DeleteDependenciesOf(name)
    /\ last' = Call("remove_package", <<name>>, TRUE)
    /\ UNCHANGED <<clock, procVars, storeVars, miscTables, ctrTables, network, ip_log>>

\* add_dependency: INSERT OR IGNORE on the key (package, depends_on), then commit
add_dependency(package, depends_on) ==
    /\ Cardinality(dependencies) < MaxDeps
    /\ dependencies' =
          IF \E d \in dependencies : d.package = package /\ d.depends_on = depends_on
          THEN dependencies
          ELSE dependencies \cup {[package |-> package, depends_on |-> depends_on]}
    /\ last' = Call("add_dependency", <<package, depends_on>>, TRUE)
    /\ UNCHANGED <<clock, procVars, storeVars, packages, miscTables, ctrTables, network, ip_log>>

\* SELECT name FROM packages WHERE auto_installed = 1
auto_installed_names ==
    SortedNames({ r.name : r \in { q \in packages : q.auto_installed = 1 } })

\* SELECT name FROM packages WHERE auto_installed = 0
manually_installed_names ==
    SortedNames({ r.name : r \in { q \in packages : q.auto_installed = 0 } })

\* SELECT depends_on FROM dependencies WHERE package = ?
SelectDependsOn(pkg) == { d.depends_on : d \in { e \in dependencies : e.package = pkg } }

\* the loop "for pkg in manually_installed: needed.update(...)" over pkgs[i..]
RECURSIVE NeededLoop(_, _, _)
NeededLoop(pkgs, i, needed) ==
    IF i > Len(pkgs) THEN needed
    ELSE NeededLoop(pkgs, i + 1, needed \cup SelectDependsOn(pkgs[i]))

\* the targets reachable from the manually installed packages through any
\* number of edges
RECURSIVE ReachLoop(_)
ReachLoop(S) ==
    LET T == S \cup UNION { SelectDependsOn(p) : p \in S }
    IN IF T = S THEN S ELSE ReachLoop(T)
NeededTransitive == ReachLoop(NeededLoop(manually_installed_names, 1, {}))

\* needed, once the loop over manually_installed has ended
Needed == NeededLoop(manually_installed_names, 1, {})

\* the list without the filter on needed
OrphanedUnfiltered(needed) == auto_installed_names

\* orphaned = [pkg for pkg in auto_installed if pkg not in needed]
Orphaned(needed) ==
    SelectSeq(auto_installed_names, LAMBDA pkg : pkg \notin needed)

\* get_orphaned_packages: the two selects, the loop, the filter
get_orphaned_packages ==
    /\ last' = Call("get_orphaned_packages", <<>>, Orphaned(Needed))
    /\ UNCHANGED <<clock, procVars, storeVars, pkgTables, miscTables, ctrTables, network, ip_log>>

\* AddPackageManager.remove: refuses a name that get_package does not find
remove(package_name) ==
    IF SelectPackage(package_name) = {}
    THEN /\ last' = Call("remove", <<package_name>>, FALSE)
         /\ UNCHANGED <<clock, procVars, storeVars, pkgTables, miscTables, ctrTables, network, ip_log>>
    ELSE /\ packages' = DeletePackage(package_name)
         /\ dependencies' = DeleteDependenciesOf(package_name)
         /\ last' = Call("remove", <<package_name>>, TRUE)
         /\ UNCHANGED <<clock, procVars, storeVars, miscTables, ctrTables, network, ip_log>>

\* remove_package when the second DELETE raises sqlite3.Error: the first DELETE
\* has run inside the transaction the connection opened for it, the except
\* branch returns False and neither commits nor rolls back.  The connection
\* (the only reader) sees the package row deleted and the next commit of any
\* operation makes it durable, unless the error was one on which SQLite rolls
\* the whole transaction back by itself (rolled_back).
remove_package_error(name, rolled_back) ==
    /\ packages' = IF rolled_back THEN packages ELSE DeletePackage(name)
    /\ last' = Call("remove_package", <<name>>, FALSE)
    /\ UNCHANGED <<clock, procVars, storeVars, dependencies, miscTables, ctrTables, network, ip_log>>

------------------------------------------------------------------------------
(* AddPackageManager.install *)

\* self.packages_index: the entries of the package index that was loaded;
\* Depends is the list depends.split(', ') yields, each entry a name and the
\* version constraint that follows it in parentheses
PackagesIndex ==
    [ n \in {"bash", "openssl"} |->
        IF n = "bash"
        THEN [ Version |-> "5.2", Size |-> 300, Filename |-> "bash-5.2.apk",
               Depends |-> << [name |-> "openssl", constraint |-> "(>= 3.0)"],
                              [name |-> "zlib", constraint |-> ""] >> ]
        ELSE [ Version |-> "3.1", Size |-> 200, Filename |-> "openssl-3.1.apk",
               Depends |-> << [name |-> "zlib", constraint |-> ""] >> ] ]

\* self.packages_index.get(package_name)
get_package_info(package_name) ==
    IF package_name \in DOMAIN PackagesIndex
    THEN Some(PackagesIndex[package_name]) ELSE None

\* dep.split('(')[0].strip()
DepClean(dep) == dep.name

\* str(time.time())
TimeStr(t) == <<"0", "1", "2", "3">>[t + 1]

\* INSERT OR REPLACE INTO metadata (key, value)
InsertOrReplaceMetadata(key, value) ==
    { m \in metadata : m.key # key } \cup { [key |-> key, value |-> value] }

\* the edges the add_dependency calls of install insert: one call per entry of
\* Depends, each with its own commit; a call on which the storage layer fails
\* (failed holds its position) returns False, which install does not look at
InstalledEdges(package_name, depends, failed) ==
    { [package |-> package_name, depends_on |-> DepClean(depends[i])] :
         i \in (1..Len(depends)) \ failed }

\* the row recorded as installed automatically
InstalledRowAuto(package_name, pkg_info, simulate) ==
    PackageRow(package_name, pkg_info.Version, pkg_info.Size, pkg_info.Filename,
               clock, TRUE, simulate)

\* the row of the add_package call of install: auto_installed=False,
\* simulated=simulate
InstalledRow(package_name, pkg_info, simulate) ==
    PackageRow(package_name, pkg_info.Version, pkg_info.Size, pkg_info.Filename,
               clock, FALSE, simulate)

\* the test for an installed package left out
AlreadyInstalledNever(package_name) == FALSE

\* if self.db_manager.get_package(package_name): the dict of a row is truthy
AlreadyInstalled(package_name) == SelectPackage(package_name) # {}

\* install: add_package, one add_dependency per declared dependency and
\* set_metadata, each a statement with its own commit and its own except
\* branch; add_failed, deps_failed and meta_failed say on which of them the
\* storage layer fails
install(package_name, simulate, add_failed, deps_failed, meta_failed) ==
    /\ IF AlreadyInstalled(package_name)
       THEN /\ last' = CallAt("install", <<package_name, simulate>>, TRUE)
            /\ UNCHANGED <<pkgTables, metadata>>
       ELSE IF get_package_info(package_name) = None
       THEN /\ last' = CallAt("install", <<package_name, simulate>>, FALSE)
            /\ UNCHANGED <<pkgTables, metadata>>
       ELSE \E pkg_info \in get_package_info(package_name) :
               /\ deps_failed \subseteq 1..Len(pkg_info.Depends)
               /\ packages' =
                     IF add_failed THEN packages
                     ELSE InsertOrReplacePackage(
                             InstalledRow(package_name, pkg_info, simulate))
               /\ dependencies' = dependencies \cup
                     InstalledEdges(package_name, pkg_info.Depends, deps_failed)
               /\ metadata' = IF meta_failed THEN metadata
                               ELSE InsertOrReplaceMetadata("last_update", TimeStr(clock))
               /\ last' = CallAt("install", <<package_name, simulate>>, TRUE)
    /\ UNCHANGED <<clock, procVars, storeVars, hidden_files, volumes, ctrTables, network, ip_log>>

------------------------------------------------------------------------------
(* DatabaseManager: the hidden filesystem *)

\* the VALUES of write_hidden_file: len(content) as size, time.time() as
\* created_time and as modified_time
HiddenRow(path, content, now) ==
    [ path |-> path, content |-> content, size |-> Len(content),
      created_time |-> now, modified_time |-> now ]

\* a plain INSERT that keeps the row already stored under the path
InsertHiddenKeepingOld(row) == hidden_files \cup {row}

\* INSERT OR REPLACE INTO hidden_files: the row of the same primary key (path)
\* is replaced as a whole
InsertOrReplaceHidden(row) ==
    { r \in hidden_files : r.path # row.path } \cup {row}

\* write_hidden_file: INSERT OR REPLACE on the primary key path, then commit
write_hidden_file(path, content) ==
    /\ hidden_files' = InsertOrReplaceHidden(HiddenRow(path, content, clock))
    /\ last' = CallAt("write_hidden_file", <<path, content>>, TRUE)
    /\ UNCHANGED <<clock, procVars, storeVars, pkgTables, metadata, volumes, ctrTables, network, ip_log>>

\* SELECT content FROM hidden_files WHERE path = ?
SelectHidden(path) == { r \in hidden_files : r.path = path }

\* read_hidden_file: row[0] of fetchone(), None when there is no row
read_hidden_file(path) ==
    /\ \/ /\ SelectHidden(path) = {}
          /\ last' = Call("read_hidden_file", <<path>>, None)
       \/ \E row \in SelectHidden(path) :
             last' = Call("read_hidden_file", <<path>>, Some(row.content))
    /\ UNCHANGED <<clock, procVars, storeVars, pkgTables, miscTables, ctrTables, network, ip_log>>

\* delete_hidden_file: DELETE FROM hidden_files WHERE path = ?, then commit
delete_hidden_file(path) ==
    /\ hidden_files' = { r \in hidden_files : r.path # path }
    /\ last' = Call("delete_hidden_file", <<path>>, TRUE)
    /\ UNCHANGED <<clock, procVars, storeVars, pkgTables, metadata, volumes, ctrTables, network, ip_log>>

------------------------------------------------------------------------------
(* ContainerEngine *)

\* the dict without entries
EmptyMap == [ k \in {} |-> {} ]

\* d[key] = value
MapPut(d, key, value) ==
    [ k \in DOMAIN d \cup {key} |-> IF k = key THEN value ELSE d[k] ]

\* a del that leaves the entry in place
MapDelNothing(d, key) == d

\* del d[key]
MapDel(d, key) == [ k \in DOMAIN d \ {key} |-> d[k] ]

\* _generate_id(prefix): the ids random.choice can produce
generate_id(prefix) == IF prefix = "img_" THEN ImgIds ELSE CtrIds

\* the check for an existing image finds nothing
SelectImageByNameTagNothing(name, tag) == {}

\* SELECT id FROM images WHERE name = ? AND tag = ?
SelectImageByNameTag(name, tag) == { r \in images : r.name = name /\ r.tag = tag }

\* SELECT id FROM images WHERE name = ? OR id = ?
SelectImage(image) == { r \in images : r.name = image \/ r.id = image }

\* SELECT ... FROM containers WHERE name = ? OR id = ?
SelectContainer(name_or_id) ==
    { r \in containers : r.name = name_or_id \/ r.id = name_or_id }

\* the first id drawn is kept, taken or not
UniqueIdUnchecked(prefix, table) == generate_id(prefix)

\* the id the retry loop ends with: one generate_id produces that no row has
\* (the loop does not end while every id it draws is taken)
UniqueId(prefix, table) == generate_id(prefix) \ { r.id : r \in table }

\* create_image
create_image(name, tag, base_image) ==
    /\ IF SelectImageByNameTag(name, tag) # {}
       THEN /\ \E existing \in SelectImageByNameTag(name, tag) :
                  last' = CallAt("create_image", <<name, tag, base_image>>,
                                 Some(existing.id))
            /\ UNCHANGED images
       ELSE \E image_id \in UniqueId("img_", images) :
               /\ images' = images \cup
                     { [ id |-> image_id, name |-> name, tag |-> tag,
                         size |-> ImageSize, created_time |-> clock,
                         base_image |-> base_image, layers |-> ImageLayers ] }
               /\ last' = CallAt("create_image", <<name, tag, base_image>>,
                                 Some(image_id))
    /\ UNCHANGED <<clock, procVars, storeVars, pkgTables, miscTables, containers, network, ip_log>>

\* f"172.17.0.{n}", as its four numbers
BridgeIp(n) == <<172, 17, 0, n>>

\* ip_addr = f"172.17.0.{len(self.network['bridge0']['containers']) + 2}"
AllocateIp == BridgeIp(Cardinality(DOMAIN network) + 2)

\* json.dumps(ports or []), json.dumps(volumes or []), json.dumps(env or {})
DumpsList(x) == IF x = None THEN "[]" ELSE x
DumpsDict(x) == IF x = None THEN "{}" ELSE x

\* the row create_container inserts (started_time and pid stay NULL)
ContainerRow(container_id, name, image_id, ip_addr, ports, vols, env, command) ==
    [ id |-> container_id, name |-> name, image_id |-> image_id,
      status |-> "created", created_time |-> clock, started_time |-> None,
      pid |-> None, ip_address |-> ip_addr, ports |-> DumpsList(ports),
      volumes |-> DumpsList(vols), env_vars |-> DumpsDict(env),
      command |-> command ]

\* the name check of create_container left out
NameTakenNever(name) == FALSE

\* SELECT id FROM containers WHERE name = ?  ... if existing
NameTaken(name) == \E r \in containers : r.name = name

\* the image reference stored as it was given
ImageIdAsGiven(img, image) == image

\* image_id = img[0]: the id of the row the image select found
ImageIdOf(img, image) == img.id

\* create_container
create_container(name, image, command, ports, vols, env) ==
    /\ IF SelectImage(image) = {} \/ NameTaken(name)
       THEN /\ last' = CallAt("create_container", <<name, image>>, None)
            /\ UNCHANGED <<containers, ip_log>>
       ELSE \E img \in SelectImage(image), container_id \in UniqueId("ctr_", containers) :
               /\ containers' = containers \cup
                     { ContainerRow(container_id, name, ImageIdOf(img, image), AllocateIp,
                                    ports, vols, env, command) }
               /\ ip_log' = [ip_log EXCEPT !.ips = Append(@, AllocateIp)]
               /\ last' = CallAt("create_container", <<name, image>>,
                                 Some(container_id))
    /\ UNCHANGED <<clock, procVars, storeVars, pkgTables, miscTables, images, network>>

\* the rows an UPDATE containers ... WHERE id = cid writes
WhereId(cid) == { r \in containers : r.id = cid }

\* start writes the row without a pid
StartedRowNoPid(r, pid) ==
    [r EXCEPT !.status = "running", !.started_time = Some(clock)]

\* SET status = 'running', started_time = time.time(), pid = pid
StartedRow(r, pid) ==
    [r EXCEPT !.status = "running", !.started_time = Some(clock), !.pid = Some(pid)]

\* the entry registered with an address computed anew
MapEntryFreshIp(container, pid) ==
    [ name |-> container.name, ip |-> AllocateIp, pid |-> pid ]

\* {'name': cname, 'ip': ip_addr, 'pid': pid} of the selected row
MapEntry(container, pid) ==
    [ name |-> container.name, ip |-> container.ip_address, pid |-> pid ]

\* start_container
start_container(name_or_id) ==
    /\ IF SelectContainer(name_or_id) = {}
       THEN /\ last' = CallOn("start_container", <<name_or_id>>, FALSE, None)
            /\ UNCHANGED <<containers, network>>
       ELSE \E container \in SelectContainer(name_or_id), pid \in Pids :
               /\ containers' = (containers \ WhereId(container.id)) \cup
                     { StartedRow(r, pid) : r \in WhereId(container.id) }
               /\ network' = MapPut(network, container.id, MapEntry(container, pid))
               /\ last' = CallOn("start_container", <<name_or_id>>, TRUE,
                                 Some(container))
    /\ UNCHANGED <<clock, procVars, storeVars, pkgTables, miscTables, images, ip_log>>

\* stop writes the status of a new row
StoppedRowAsCreated(r) == [r EXCEPT !.status = "created", !.pid = None]

\* stop keeps the pid
StoppedRowKeepingPid(r) == [r EXCEPT !.status = "stopped"]

\* SET status = 'stopped', pid = NULL
StoppedRow(r) == [r EXCEPT !.status = "stopped", !.pid = None]

\* stop_container
stop_container(name_or_id) ==
    /\ IF SelectContainer(name_or_id) = {}
       THEN /\ last' = CallOn("stop_container", <<name_or_id>>, FALSE, None)
            /\ UNCHANGED <<containers, network>>
       ELSE \E container \in SelectContainer(name_or_id) :
               /\ containers' = (containers \ WhereId(container.id)) \cup
                     { StoppedRow(r) : r \in WhereId(container.id) }
               /\ network' = IF container.id \in DOMAIN network
                             THEN MapDel(network, container.id)
                             ELSE network
               /\ last' = CallOn("stop_container", <<name_or_id>>, TRUE,
                                 Some(container))
    /\ UNCHANGED <<clock, procVars, storeVars, pkgTables, miscTables, images, ip_log>>

\* the history after rows were removed: a new sequence of creations begins
NewIpLog(rows_left) == [ fresh |-> rows_left = {}, ips |-> <<>> ]

\* the status test of remove_container left out
RemoveRefusedNever(status, force) == FALSE

\* if status == 'running' and not force
RemoveRefused(status, force) == status = "running" /\ ~force

\* the live map after a removal that deregisters the container
MapAfterRemoveDeregistered(cid) == MapDel(network, cid)

\* the live map after DELETE FROM containers WHERE id = cid and the commit:
\* remove_container has no statement on self.network
MapAfterRemove(cid) == network

\* remove_container
remove_container(name_or_id, force) ==
    /\ IF SelectContainer(name_or_id) = {}
       THEN /\ last' = CallOn("remove_container", <<name_or_id, force>>, FALSE, None)
            /\ UNCHANGED <<containers, network, ip_log>>
       ELSE \E container \in SelectContainer(name_or_id) :
               IF RemoveRefused(container.status, force)
               THEN /\ last' = CallOn("remove_container", <<name_or_id, force>>,
                                      FALSE, Some(container))
                    /\ UNCHANGED <<containers, network, ip_log>>
               ELSE /\ containers' = { r \in containers : r.id # container.id }
                    /\ network' = MapAfterRemove(container.id)
                    /\ ip_log' = NewIpLog(containers')
                    /\ last' = CallOn("remove_container", <<name_or_id, force>>,
                                      TRUE, Some(container))
    /\ UNCHANGED <<clock, procVars, storeVars, pkgTables, miscTables, images>>

\* the rows list_containers selects (ORDER BY created_time DESC orders them)
SelectContainers(all_containers) ==
    IF all_containers THEN containers
    ELSE { r \in containers : r.status = "running" }

\* the rows in any order
OrderByCreatedAny(rows) ==
    { s \in [1..Cardinality(rows) -> rows] :
         \A i, j \in DOMAIN s : i # j => s[i] # s[j] }

\* the lists fetchall() can return for ORDER BY created_time DESC over rows:
\* every row once, no row before a row created later (rows created at the
\* same time come in an order the statement does not fix)
OrderByCreatedDesc(rows) ==
    { s \in [1..Cardinality(rows) -> rows] :
         /\ \A i, j \in DOMAIN s : i # j => s[i] # s[j]
         /\ \A i, j \in DOMAIN s : i < j => s[i].created_time >= s[j].created_time }

\* list_containers: the select, each row as a dict
list_containers(all_containers) ==
    /\ \E rows \in OrderByCreatedDesc(SelectContainers(all_containers)) :
          last' = Call("list_containers", <<all_containers>>, rows)
    /\ UNCHANGED <<clock, procVars, storeVars, pkgTables, miscTables, ctrTables, network, ip_log>>

\* the three strings exec_container returns
ExecNotFound(name_or_id) == <<"error", "Container not found: ", name_or_id>>
ExecNotRunning(cname) == <<"error", "Container is not running: ", cname>>
ExecOutput(cname, command) ==
    <<"output", cname, command, "Command executed in container ", cname,
      "(simulated output)">>

\* the status test of exec_container, passing every status
ExecRefusedNever(status) == FALSE

\* if status != 'running'
ExecRefused(status) == status # "running"

\* exec_container
exec_container(name_or_id, command) ==
    /\ IF SelectContainer(name_or_id) = {}
       THEN last' = CallOn("exec_container", <<name_or_id, command>>,
                           ExecNotFound(name_or_id), None)
       ELSE \E container \in SelectContainer(name_or_id) :
               last' = CallOn("exec_container", <<name_or_id, command>>,
                              IF ExecRefused(container.status)
                              THEN ExecNotRunning(container.name)
                              ELSE ExecOutput(container.name, command),
                              Some(container))
    /\ UNCHANGED <<clock, procVars, storeVars, pkgTables, miscTables, ctrTables, network, ip_log>>

\* network_inspect: the dict of the bridge, with the live map itself
network_inspect(network_name) ==
    IF network_name = "bridge0"
    THEN [ subnet |-> "172.17.0.0/16", gateway |-> "172.17.0.1",
           containers |-> network ]
    ELSE EmptyMap

------------------------------------------------------------------------------
(* KernelAddCLI: clean-ups that write the tables directly; a new process *)

\* input(...).strip().lower() of _cmd_cclean
StripLower(text) ==
    IF text \in {"yes", "YES", " yes "} THEN "yes"
    ELSE IF text \in {"y", "Y", " y "} THEN "y"
    ELSE IF text \in {"", " "} THEN ""
    ELSE text

\* _cmd_cclean: after the confirmation, DELETE FROM containers, images,
\* volumes, commit, and the live map is replaced by an empty one
cmd_cclean(confirm) ==
    /\ IF StripLower(confirm) # "yes"
       THEN UNCHANGED <<ctrTables, volumes, network, ip_log>>
       ELSE /\ containers' = {}
            /\ images' = {}
            /\ volumes' = {}
            /\ network' = EmptyMap
            /\ ip_log' = IF containers = {} THEN ip_log ELSE NewIpLog({})
    /\ last' = Call("cmd_cclean", <<confirm>>, TRUE)
    /\ UNCHANGED <<clock, procVars, storeVars, pkgTables, metadata, hidden_files>>

\* input(...).strip() of _cmd_dbclean
Strip(text) ==
    IF text \in {" DELETE EVERYTHING ", "DELETE EVERYTHING "}
    THEN "DELETE EVERYTHING" ELSE text

\* every answer confirms
DbcleanConfirmedAlways(confirm) == TRUE

\* the negation of: if confirm != 'DELETE EVERYTHING'
DbcleanConfirmed(confirm) == Strip(confirm) = "DELETE EVERYTHING"

\* the list of tables without metadata
DbcleanTablesWithoutMetadata ==
    {"packages", "dependencies", "hidden_files", "containers", "images", "volumes"}

\* tables = ['packages', 'dependencies', 'hidden_files', 'containers',
\*           'images', 'volumes', 'metadata']
DbcleanTables ==
    {"packages", "dependencies", "hidden_files", "containers", "images",
     "volumes", "metadata"}

\* cursor.execute(f'DELETE FROM {table}') for the tables of the list
DeleteFrom(table, rows) == IF table \in DbcleanTables THEN {} ELSE rows

\* cursor.rowcount of each DELETE, as printed
DeletedCounts ==
    [ packages |-> Cardinality(packages) - Cardinality(DeleteFrom("packages", packages)),
      dependencies |-> Cardinality(dependencies)
                         - Cardinality(DeleteFrom("dependencies", dependencies)),
      hidden_files |-> Cardinality(hidden_files)
                         - Cardinality(DeleteFrom("hidden_files", hidden_files)),
      containers |-> Cardinality(containers)
                         - Cardinality(DeleteFrom("containers", containers)),
      images |-> Cardinality(images) - Cardinality(DeleteFrom("images", images)),
      volumes |-> Cardinality(volumes) - Cardinality(DeleteFrom("volumes", volumes)),
      metadata |-> Cardinality(metadata) - Cardinality(DeleteFrom("metadata", metadata)) ]

\* _cmd_dbclean: after the phrase, DELETE FROM each table of the list, then
\* commit, and the counts are printed; the live map is not touched; without
\* the phrase nothing is done (no counts)
cmd_dbclean(confirm) ==
    /\ IF ~DbcleanConfirmed(confirm)
       THEN /\ last' = Call("cmd_dbclean", <<confirm>>, None)
            /\ UNCHANGED <<pkgTables, miscTables, ctrTables, ip_log>>
       ELSE /\ ip_log' = IF containers = {} THEN ip_log ELSE NewIpLog({})
            /\ packages' = DeleteFrom("packages", packages)
            /\ dependencies' = DeleteFrom("dependencies", dependencies)
            /\ hidden_files' = DeleteFrom("hidden_files", hidden_files)
            /\ containers' = DeleteFrom("containers", containers)
            /\ images' = DeleteFrom("images", images)
            /\ volumes' = DeleteFrom("volumes", volumes)
            /\ metadata' = DeleteFrom("metadata", metadata)
            /\ last' = Call("cmd_dbclean", <<confirm>>, Some(DeletedCounts))
    /\ UNCHANGED <<clock, procVars, storeVars, network>>

\* only the edges whose package side is no package name
DanglingDependenciesPackageSide ==
    { d \in dependencies : d.package \notin { r.name : r \in packages } }

\* the rows of dependencies with a side that is no package name
DanglingDependencies ==
    { d \in dependencies :
         \/ d.package \notin { r.name : r \in packages }
         \/ d.depends_on \notin { r.name : r \in packages } }

\* _cmd_dbfix: the counts are only printed; the dangling edges are deleted
\* when their count (orphaned_deps) is above zero
cmd_dbfix ==
    /\ dependencies' = IF Cardinality(DanglingDependencies) > 0
                       THEN dependencies \ DanglingDependencies
                       ELSE dependencies
    /\ last' = Call("cmd_dbfix", <<>>, Cardinality(DanglingDependencies))
    /\ UNCHANGED <<clock, procVars, storeVars, packages, miscTables, ctrTables, network, ip_log>>

\* remove_package(name) on the tables db: both DELETE statements and the commit
RemovePackageIn(db, name) ==
    [ packages |-> { r \in db.packages : r.name # name },
      dependencies |-> { d \in db.dependencies :
                            ~(d.package = name \/ d.depends_on = name) } ]

\* only the first package of the list is removed
AutoremoveLoopFirstOnly(orphaned, i, db) ==
    IF orphaned = <<>> THEN db ELSE RemovePackageIn(db, orphaned[1])

\* for pkg in orphaned: self.db_manager.remove_package(pkg), over orphaned[i..]
RECURSIVE AutoremoveLoop(_, _, _)
AutoremoveLoop(orphaned, i, db) ==
    IF i > Len(orphaned) THEN db
    ELSE AutoremoveLoop(orphaned, i + 1, RemovePackageIn(db, orphaned[i]))

\* confirm = input(...).strip().lower(); if confirm and confirm != 'y'
AutoremoveCancelled(confirm) ==
    StripLower(confirm) # "" /\ StripLower(confirm) # "y"

\* the record of an autoremove call, with the list it read at its start
AutoremoveCall(confirm, ret, orphaned) ==
    [ op |-> "autoremove", args |-> <<confirm>>, ret |-> ret,
      rep |-> NextRep("autoremove", <<confirm>>), orphaned |-> orphaned ]

\* autoremove: the list of get_orphaned_packages is read once, at the start;
\* with no orphan it returns True without a prompt
autoremove(confirm) ==
    /\ LET orphaned == Orphaned(Needed)
       IN IF orphaned = <<>>
          THEN /\ last' = AutoremoveCall(confirm, TRUE, orphaned)
               /\ UNCHANGED pkgTables
          ELSE IF AutoremoveCancelled(confirm)
          THEN /\ last' = AutoremoveCall(confirm, FALSE, orphaned)
               /\ UNCHANGED pkgTables
          ELSE LET db == AutoremoveLoop(orphaned, 1,
                            [ packages |-> packages, dependencies |-> dependencies ])
               IN /\ packages' = db.packages
                  /\ dependencies' = db.dependencies
                  /\ last' = AutoremoveCall(confirm, TRUE, orphaned)
    /\ UNCHANGED <<clock, procVars, storeVars, miscTables, ctrTables, network, ip_log>>

\* the metadata AddPackageManager.__init__ writes when no version is stored
InitialMetadata ==
    { [key |-> "version", value |-> "1.0.0"],
      [key |-> "architecture", value |-> "x86_64"] }

\* the program is started again on the same database file: a new connection,
\* the tables are kept and the missing ones created (CREATE TABLE IF NOT
\* EXISTS), the live map starts empty
restart ==
    /\ network' = EmptyMap
    /\ metadata' = IF \E m \in metadata : m.key = "version"
                   THEN metadata
                   ELSE { m \in metadata : m.key \notin {"version", "architecture"} }
                        \cup InitialMetadata
    /\ conn' = "open"
    /\ schema' = schema \cup DatabaseTables \cup ContainerTables
    /\ last' = Call("restart", <<>>, TRUE)
    /\ UNCHANGED <<clock, procVars, dbfile, repair, pkgTables, hidden_files, volumes,
                   ctrTables, ip_log>>

------------------------------------------------------------------------------
(* DatabaseManager.repair, step by step, and operations on a store that fails *)

\* the rows of the database file
Content ==
    [ packages |-> packages, dependencies |-> dependencies,
      metadata |-> metadata, hidden_files |-> hidden_files,
      images |-> images, containers |-> containers, volumes |-> volumes ]

\* no repair() is running
IdleRepair ==
    [ step |-> "idle", before |-> None, backup |-> "none", temp |-> None,
      path |-> "none" ]

\* the return of repair(), with the path it took, the rows the file had when
\* it began and the state of its backup file
RepairResult(ret) ==
    [ op |-> "repair", args |-> <<>>, ret |-> ret, rep |-> NextRep("repair", <<>>),
      path |-> repair.path, before |-> repair.before, backup |-> repair.backup ]

\* if self.conn: self.conn.close()
repair_close ==
    /\ repair.step = "idle" /\ conn # "none"
    /\ conn' = "closed"
    /\ repair' = [IdleRepair EXCEPT !.step = "closed", !.before = Some(Content)]
    /\ UNCHANGED <<clock, procVars, pkgTables, miscTables, ctrTables, network, last,
                   schema, dbfile, ip_log>>

\* the copy is never made
CopyOutcomesSkipped(exists) == {"skipped"}

\* if os.path.exists(self.db_path): shutil.copy2(self.db_path, backup_path);
\* the copy either completes or raises with the backup partly written
CopyOutcomes(exists) == IF exists THEN {"complete", "failed"} ELSE {"skipped"}

\* the backup; a copy that raises ends repair() in its outer except branch,
\* which returns False and leaves the connection closed
repair_backup ==
    /\ repair.step = "closed"
    /\ \E outcome \in CopyOutcomes(dbfile # "absent") :
          IF outcome = "failed"
          THEN /\ last' = [RepairResult(FALSE) EXCEPT !.backup = "partial"]
               /\ repair' = IdleRepair
          ELSE /\ repair' = [repair EXCEPT
                                !.step = "backed_up",
                                !.backup = IF outcome = "complete"
                                           THEN "complete" ELSE "none"]
               /\ UNCHANGED last
    /\ UNCHANGED <<clock, procVars, pkgTables, miscTables, ctrTables, network, conn,
                   schema, dbfile, ip_log>>

\* the rows of a table that are left when at most n INSERT lines are skipped
Kept(rows, n) == { k \in SUBSET rows : Cardinality(rows \ k) <= n }

\* for line in old_conn.iterdump(): try: new_conn.execute(line)
\*                                  except sqlite3.Error: continue
\* the contents the new file can have: the lines that fail are skipped, here
\* at most MaxReplayFailures INSERT lines in all
Replayed(content) ==
    { k \in [ packages : Kept(content.packages, MaxReplayFailures),
              dependencies : Kept(content.dependencies, MaxReplayFailures),
              metadata : Kept(content.metadata, MaxReplayFailures),
              hidden_files : Kept(content.hidden_files, MaxReplayFailures),
              images : Kept(content.images, MaxReplayFailures),
              containers : Kept(content.containers, MaxReplayFailures),
              volumes : Kept(content.volumes, MaxReplayFailures) ] :
         Cardinality(content.packages \ k.packages)
           + Cardinality(content.dependencies \ k.dependencies)
           + Cardinality(content.metadata \ k.metadata)
           + Cardinality(content.hidden_files \ k.hidden_files)
           + Cardinality(content.images \ k.images)
           + Cardinality(content.containers \ k.containers)
           + Cardinality(content.volumes \ k.volumes) <= MaxReplayFailures }

\* the inner try block: the dump of the old file is replayed into the temp
\* file, committed and both connections closed; or sqlite3.connect, iterdump
\* or the commit raises sqlite3.Error, with the temp file created or not
repair_dump ==
    /\ repair.step = "backed_up"
    /\ \/ \E replayed \in Replayed(Content) :
             repair' = [repair EXCEPT !.step = "dumped", !.temp = Some(replayed),
                                      !.path = "replay"]
       \/ \E partial \in {None, Some(Content)} :
             repair' = [repair EXCEPT !.step = "fallback", !.temp = partial,
                                      !.path = "fallback"]
    /\ UNCHANGED <<clock, procVars, pkgTables, miscTables, ctrTables, network, last, conn,
                   schema, dbfile, ip_log>>

\* the history of addresses when a repair step changed the containers table
IpLogAfter(rows) == IF rows = containers THEN ip_log ELSE NewIpLog(rows)

\* os.replace(temp_db, self.db_path): the path holds the replayed file
repair_replace ==
    /\ repair.step = "dumped"
    /\ \E new \in repair.temp :
          /\ packages' = new.packages /\ dependencies' = new.dependencies
          /\ metadata' = new.metadata /\ hidden_files' = new.hidden_files
          /\ images' = new.images /\ containers' = new.containers
          /\ volumes' = new.volumes
          /\ ip_log' = IpLogAfter(new.containers)
    /\ dbfile' = "complete"
    /\ repair' = [repair EXCEPT !.step = "reinit", !.temp = None]
    /\ UNCHANGED <<clock, procVars, network, last, conn, schema>>

\* the except branch: os.remove(temp_db) if it exists, os.remove(self.db_path)
repair_discard ==
    /\ repair.step = "fallback"
    /\ packages' = {} /\ dependencies' = {} /\ metadata' = {}
    /\ hidden_files' = {} /\ images' = {} /\ containers' = {} /\ volumes' = {}
    /\ ip_log' = IpLogAfter({})
    /\ schema' = {}
    /\ dbfile' = "absent"
    /\ repair' = [repair EXCEPT !.step = "reinit", !.temp = None]
    /\ UNCHANGED <<clock, procVars, network, last, conn>>

\* self._init_database(): CREATE TABLE IF NOT EXISTS for packages,
\* dependencies, metadata and hidden_files
ReinitTables == DatabaseTables

\* self._init_database() on a new connection, then return True
repair_init ==
    /\ repair.step = "reinit"
    /\ conn' = "open"
    /\ schema' = schema \cup ReinitTables
    /\ dbfile' = "complete"
    /\ last' = RepairResult(TRUE)
    /\ repair' = IdleRepair
    /\ UNCHANGED <<clock, procVars, pkgTables, miscTables, ctrTables, network, ip_log>>

\* repair() of a manager whose connection was never opened: nothing is there
\* to close or to copy, sqlite3.connect raises again, os.remove of the missing
\* file raises and the outer except branch returns False
repair_noconn ==
    /\ repair.step = "idle" /\ conn = "none"
    /\ last' = RepairResult(FALSE)
    /\ UNCHANGED <<clock, procVars, pkgTables, miscTables, ctrTables, network, storeVars,
                   ip_log>>

\* the operations of the store that take one name, the table each works on
TableOf(op) ==
    IF op \in {"get_package", "remove_package"} THEN "packages"
    ELSE IF op \in {"read_hidden_file", "delete_hidden_file"} THEN "hidden_files"
    ELSE IF op = "get_metadata" THEN "metadata"
    ELSE IF op = "create_image" THEN "images"
    ELSE "containers"

\* what the except sqlite3.Error branch of each operation returns
FailureValue(op) ==
    IF op \in {"remove_package", "delete_hidden_file", "start_container",
               "stop_container"}
    THEN FALSE
    ELSE None

\* the operation can run its statements: an open connection and its table
Usable(table) == repair.step = "idle" /\ conn = "open" /\ table \in schema

\* an operation on a closed connection or on a missing table: cursor() or
\* execute() raises sqlite3.Error (ProgrammingError, OperationalError), the
\* except branch returns the failure value
storage_error(op, args) ==
    /\ repair.step = "idle" /\ conn # "none"
    /\ ~Usable(TableOf(op))
    /\ last' = Call(op, args, FailureValue(op))
    /\ UNCHANGED <<clock, procVars, pkgTables, miscTables, ctrTables, network, storeVars,
                   ip_log>>

\* an operation of a manager whose conn is None: self.conn.cursor() raises
\* AttributeError, which except sqlite3.Error does not catch
attribute_error(op, args) ==
    /\ repair.step = "idle" /\ conn = "none"
    /\ last' = [ op |-> op, args |-> args, rep |-> NextRep(op, args),
                 exc |-> "AttributeError" ]
    /\ UNCHANGED <<clock, procVars, pkgTables, miscTables, ctrTables, network, storeVars,
                   ip_log>>

------------------------------------------------------------------------------
(* ContainerEngine: the id loop of create_image and create_container, *)
(* one statement at a time                                             *)

\* no id loop is running
IdleGen ==
    [ pc |-> "idle", prefix |-> "", id |-> "", name |-> "", arg |-> "",
      image_id |-> "" ]

\* SELECT id FROM images / containers WHERE id = ?  ... fetchone()
IdTaken(prefix, id) ==
    IF prefix = "img_" THEN \E r \in images : r.id = id
    ELSE \E r \in containers : r.id = id

\* the ids of the prefix that no row has
FreeIds(prefix) == { id \in generate_id(prefix) : ~IdTaken(prefix, id) }

\* the same id is drawn again
RedrawSame(prefix, current) == {current}

\* image_id = self._generate_id('img_') / container_id = self._generate_id('ctr_')
\* inside the loop: any id of the generator, the current one included
Redraw(prefix, current) == generate_id(prefix)

\* create_image up to its first draw (or its return of the existing id)
create_image_begin(name, tag) ==
    /\ gen.pc = "idle"
    /\ IF SelectImageByNameTag(name, tag) # {}
       THEN /\ \E existing \in SelectImageByNameTag(name, tag) :
                  last' = CallAt("create_image", <<name, tag, None>>,
                                 Some(existing.id))
            /\ UNCHANGED gen
       ELSE /\ \E image_id \in generate_id("img_") :
                  gen' = [ pc |-> "check", prefix |-> "img_", id |-> image_id,
                           name |-> name, arg |-> tag, image_id |-> "" ]
            /\ UNCHANGED last
    /\ UNCHANGED <<clock, memory, guiVars, storeVars, pkgTables, miscTables,
                   ctrTables, network, ip_log>>

\* one turn of "while True": the select found the id, another one is drawn
gen_retry(new_id) ==
    /\ gen.pc = "check"
    /\ IdTaken(gen.prefix, gen.id)
    /\ new_id \in Redraw(gen.prefix, gen.id)
    /\ gen' = [gen EXCEPT !.id = new_id]
    /\ UNCHANGED <<clock, memory, guiVars, storeVars, pkgTables, miscTables,
                   ctrTables, network, last, ip_log>>

\* create_image from the break of its loop: INSERT INTO images, commit
create_image_end ==
    /\ gen.pc = "check" /\ gen.prefix = "img_"
    /\ ~IdTaken(gen.prefix, gen.id)
    /\ images' = images \cup
          { [ id |-> gen.id, name |-> gen.name, tag |-> gen.arg,
              size |-> ImageSize, created_time |-> clock,
              base_image |-> None, layers |-> ImageLayers ] }
    /\ last' = CallAt("create_image", <<gen.name, gen.arg, None>>, Some(gen.id))
    /\ gen' = IdleGen
    /\ UNCHANGED <<clock, memory, guiVars, storeVars, pkgTables, miscTables,
                   containers, network, ip_log>>

\* create_container up to its first draw (or its refusal)
create_container_begin(name, image) ==
    /\ gen.pc = "idle"
    /\ IF SelectImage(image) = {} \/ NameTaken(name)
       THEN /\ last' = CallAt("create_container", <<name, image>>, None)
            /\ UNCHANGED gen
       ELSE /\ \E img \in SelectImage(image), container_id \in generate_id("ctr_") :
                  gen' = [ pc |-> "check", prefix |-> "ctr_", id |-> container_id,
                           name |-> name, arg |-> image,
                           image_id |-> ImageIdOf(img, image) ]
            /\ UNCHANGED last
    /\ UNCHANGED <<clock, memory, guiVars, storeVars, pkgTables, miscTables,
                   ctrTables, network, ip_log>>

\* create_container from the break of its loop: the address, the INSERT, commit
create_container_end ==
    /\ gen.pc = "check" /\ gen.prefix = "ctr_"
    /\ ~IdTaken(gen.prefix, gen.id)
    /\ containers' = containers \cup
          { ContainerRow(gen.id, gen.name, gen.image_id, AllocateIp,
                         None, None, None, "/bin/sh") }
    /\ ip_log' = [ip_log EXCEPT !.ips = Append(@, AllocateIp)]
    /\ last' = CallAt("create_container", <<gen.name, gen.arg>>, Some(gen.id))
    /\ gen' = IdleGen
    /\ UNCHANGED <<clock, memory, guiVars, storeVars, pkgTables, miscTables,
                   images, network>>

------------------------------------------------------------------------------
(* MiniKernel: sys_mem_alloc and sys_mem_free *)

HexDigits == <<"0", "1", "2", "3", "4", "5", "6", "7",
               "8", "9", "a", "b", "c", "d", "e", "f">>

\* f"{n:08x}": the eight hexadecimal digits of n, the highest first
Hex8(n) == [ i \in 1..8 |-> HexDigits[((n \div (16 ^ (8 - i))) % 16) + 1] ]

\* addr = f"0x{len(self.state['memory']):08x}"
MemAddr(mem) == <<"0x">> \o Hex8(Cardinality(DOMAIN mem))

\* {'size': size, 'label': label, 'allocated': time.time(), 'data': bytearray(size)}
MemBlock(size, label) ==
    [ size |-> size, label |-> label, allocated |-> clock,
      data |-> [ i \in 1..size |-> 0 ] ]

\* sys_mem_alloc: the block is stored under the address, whatever was there
sys_mem_alloc(size, label) ==
    /\ Cardinality(DOMAIN memory) < MaxBlocks
    /\ memory' = MapPut(memory, MemAddr(memory), MemBlock(size, label))
    /\ last' = CallAt("mem_alloc", <<size, label>>, MemAddr(memory))
    /\ UNCHANGED <<clock, gen, guiVars, storeVars, pkgTables, miscTables,
                   ctrTables, network, ip_log>>

\* sys_mem_free: pop of the address, an error text for one that is not there
sys_mem_free(addr) ==
    /\ IF addr \notin DOMAIN memory
       THEN /\ last' = CallAt("mem_free", <<addr>>, "ERROR: Invalid memory address")
            /\ UNCHANGED memory
       ELSE /\ memory' = MapDel(memory, addr)
            /\ last' = CallAt("mem_free", <<addr>>, "Freed")
    /\ UNCHANGED <<clock, gen, guiVars, storeVars, pkgTables, miscTables,
                   ctrTables, network, ip_log>>

------------------------------------------------------------------------------
(* gui.py: CommandThread.run, one statement at a time *)

\* the stream sys.stdout is when the GUI starts; the io.StringIO a thread t
\* creates is the stream t
OriginalStdout == 0

\* self.output_ready.emit(...) of a thread: nothing yet
NoOutput == [ kind |-> "none", text |-> <<>> ]

\* a CommandThread that was not created yet
NotStarted == [ pc |-> "new", old_stdout |-> None, output |-> NoOutput ]

\* run_command_thread: a CommandThread is created and started, whatever the
\* threads started before it are doing
run_command_thread(t) ==
    /\ threads[t].pc = "new"
    /\ threads' = [threads EXCEPT ![t].pc = "save"]
    /\ UNCHANGED <<clock, gen, memory, sys_stdout, streams, storeVars, pkgTables,
                   miscTables, ctrTables, network, last, ip_log>>

\* old_stdout = sys.stdout
thread_save(t) ==
    /\ threads[t].pc = "save"
    /\ threads' = [threads EXCEPT ![t].pc = "set", ![t].old_stdout = Some(sys_stdout)]
    /\ UNCHANGED <<clock, gen, memory, sys_stdout, streams, storeVars, pkgTables,
                   miscTables, ctrTables, network, last, ip_log>>

\* sys.stdout = io.StringIO()
thread_set(t) ==
    /\ threads[t].pc = "set"
    /\ sys_stdout' = t
    /\ streams' = [streams EXCEPT ![t] = <<>>]
    /\ threads' = [threads EXCEPT ![t].pc = "print"]
    /\ UNCHANGED <<clock, gen, memory, storeVars, pkgTables,
                   miscTables, ctrTables, network, last, ip_log>>

\* the command runs and prints: its text (the number of its thread) goes to
\* the stream sys.stdout is at that time
thread_print(t) ==
    /\ threads[t].pc = "print"
    /\ streams' = [streams EXCEPT ![sys_stdout] = Append(@, t)]
    /\ threads' = [threads EXCEPT ![t].pc = "get"]
    /\ UNCHANGED <<clock, gen, memory, sys_stdout, storeVars, pkgTables,
                   miscTables, ctrTables, network, last, ip_log>>

\* output = sys.stdout.getvalue(); if output: emit(output).  The original
\* stream has no getvalue: AttributeError, and the except branch emits the
\* error text
Emitted ==
    IF sys_stdout = OriginalStdout THEN [ kind |-> "error", text |-> <<>> ]
    ELSE IF streams[sys_stdout] = <<>> THEN NoOutput
    ELSE [ kind |-> "output", text |-> streams[sys_stdout] ]

thread_get(t) ==
    /\ threads[t].pc = "get"
    /\ threads' = [threads EXCEPT ![t].pc = "restore", ![t].output = Emitted]
    /\ UNCHANGED <<clock, gen, memory, sys_stdout, streams, storeVars, pkgTables,
                   miscTables, ctrTables, network, last, ip_log>>

\* finally: sys.stdout = old_stdout
thread_restore(t) ==
    /\ threads[t].pc = "restore"
    /\ \E old_stdout \in threads[t].old_stdout : sys_stdout' = old_stdout
    /\ threads' = [threads EXCEPT ![t].pc = "done"]
    /\ UNCHANGED <<clock, gen, memory, streams, storeVars, pkgTables,
                   miscTables, ctrTables, network, last, ip_log>>

------------------------------------------------------------------------------
Init ==
    /\ clock = 0
    /\ packages = {}
    /\ dependencies = {}
    /\ metadata = InitialMetadata
    /\ hidden_files = {}
    /\ images = {}
    /\ containers = {}
    /\ volumes = {}
    /\ network = EmptyMap
    /\ last = [op |-> "init", args |-> <<>>, ret |-> TRUE, rep |-> FALSE]
    /\ conn = "open"
    /\ schema = DatabaseTables \cup ContainerTables
    /\ dbfile = "complete"
    /\ repair = IdleRepair
    /\ gen = IdleGen
    /\ memory = EmptyMap
    /\ sys_stdout = OriginalStdout
    /\ threads = [ t \in Threads |-> NotStarted ]
    /\ streams = [ t \in {OriginalStdout} \cup Threads |-> <<>> ]
    /\ ip_log = NewIpLog({})

\* the state after a construction in which sqlite3.connect raised: the except
\* branch of _init_database leaves self.conn = None and no table is created
InitNoConn ==
    /\ clock = 0
    /\ packages = {} /\ dependencies = {} /\ metadata = {} /\ hidden_files = {}
    /\ images = {} /\ containers = {} /\ volumes = {}
    /\ network = EmptyMap
    /\ last = [op |-> "init", args |-> <<>>, ret |-> TRUE, rep |-> FALSE]
    /\ conn = "none"
    /\ schema = {}
    /\ dbfile = "absent"
    /\ repair = IdleRepair
    /\ gen = IdleGen
    /\ memory = EmptyMap
    /\ sys_stdout = OriginalStdout
    /\ threads = [ t \in Threads |-> NotStarted ]
    /\ streams = [ t \in {OriginalStdout} \cup Threads |-> <<>> ]
    /\ ip_log = NewIpLog({})

NextPkg ==
    \/ Tick
    \/ \E n \in PkgNames, i \in PkgInputs, a \in BOOLEAN, s \in BOOLEAN :
          add_package(n, i.version, i.size, i.filename, a, s)
    \/ \E n \in PkgNames : get_package(n)
    \/ \E n \in PkgNames : remove_package(n)
    \/ \E n \in PkgNames : remove(n)
    \/ \E p \in PkgNames, d \in PkgNames : add_dependency(p, d)
    \/ cmd_dbfix
    \/ \E c \in {"DELETE EVERYTHING", "yes"} : cmd_dbclean(c)

\* the package registry: two names, every field of a row varied, time passing
SpecPkg == Init /\ [][NextPkg]_vars

NextOrphan ==
    \/ \E n \in OrphanNames, a \in BOOLEAN :
          add_package(n, "1.0", 100, "a-1.0.apk", a, FALSE)
    \/ \E n \in OrphanNames : remove_package(n)
    \/ \E p \in OrphanNames, d \in OrphanNames : add_dependency(p, d)
    \/ get_orphaned_packages

\* the dependency graph: three names, so that a chain M -> D1 -> X exists
SpecOrphan == Init /\ [][NextOrphan]_vars

NextAuto ==
    \/ \E n \in OrphanNames, a \in BOOLEAN :
          add_package(n, "1.0", 100, "a-1.0.apk", a, FALSE)
    \/ \E p \in OrphanNames, d \in OrphanNames : add_dependency(p, d)
    \/ get_orphaned_packages
    \/ \E c \in AutoremoveAnswers : autoremove(c)

\* autoremove over the dependency graph of three names
SpecAuto == Init /\ [][NextAuto]_vars

NextInst ==
    \/ Tick
    \/ \E n \in OrphanNames, sim \in BOOLEAN, af \in BOOLEAN,
          df \in SUBSET (1..MaxDepends), mf \in BOOLEAN :
          install(n, sim, af, df, mf)
    \/ \E n \in OrphanNames : remove(n)
    \/ \E c \in AutoremoveAnswers : autoremove(c)
    \/ get_orphaned_packages

\* the package manager: install, remove and autoremove, nothing else
SpecInst == Init /\ [][NextInst]_vars

NextCtr ==
    \/ \E n \in ImgNames, t \in ImgTags : create_image(n, t, None)
    \/ \E n \in CtrNames, i \in ImgNames \cup ImgIds :
          create_container(n, i, "/bin/sh", None, None, None)
    \/ \E s \in CtrNames \cup CtrIds : start_container(s)
    \/ \E s \in CtrNames \cup CtrIds : stop_container(s)
    \/ \E s \in CtrNames \cup CtrIds, f \in BOOLEAN : remove_container(s, f)
    \/ \E c \in {"yes", "no"} : cmd_cclean(c)
    \/ restart

\* the container engine: images, containers and the live map
SpecCtr == Init /\ [][NextCtr]_vars

NextLife ==
    \/ \E n \in ImgNames, t \in ImgTags : create_image(n, t, None)
    \/ \E n \in CtrNames, i \in ImgNames :
          create_container(n, i, "/bin/sh", None, None, None)
    \/ \E s \in CtrNames : start_container(s)
    \/ \E s \in CtrNames : stop_container(s)
    \/ \E s \in CtrNames, f \in BOOLEAN : remove_container(s, f)
    \/ \E s \in CtrNames \cup CtrIds, c \in ExecCommands : exec_container(s, c)

\* one lifetime of the process: the container engine without a restart
SpecLife == Init /\ [][NextLife]_vars

NextMap ==
    \/ \E n \in ImgNames, t \in ImgTags : create_image(n, t, None)
    \/ \E n \in CtrNames, i \in ImgNames :
          create_container(n, i, "/bin/sh", None, None, None)
    \/ \E s \in CtrNames \cup CtrIds : start_container(s)
    \/ \E s \in CtrNames \cup CtrIds : stop_container(s)
    \/ \E s \in CtrNames \cup CtrIds : remove_container(s, FALSE)

\* one lifetime of the process with removals that are never forced
SpecMap == Init /\ [][NextMap]_vars

NextRef ==
    \/ \E n \in ImgNames, t \in ImgTags : create_image(n, t, None)
    \/ \E n \in CtrNames, i \in ImgNames \cup ImgIds :
          create_container(n, i, "/bin/sh", None, None, None)
    \/ \E s \in CtrNames : start_container(s)
    \/ \E s \in CtrNames : stop_container(s)
    \/ \E s \in CtrNames, f \in BOOLEAN : remove_container(s, f)
    \/ \E c \in {"yes", "no"} : cmd_cclean(c)
    \/ \E c \in {"DELETE EVERYTHING", "yes"} : cmd_dbclean(c)

\* containers and their images, with both clean-up commands
SpecRef == Init /\ [][NextRef]_vars

NextGen ==
    \/ \E n \in KeysImgNames, t \in KeysImgTags : create_image_begin(n, t)
    \/ \E i \in ImgIds \cup CtrIds : gen_retry(i)
    \/ create_image_end
    \/ \E n \in CtrNames, i \in KeysImgNames : create_container_begin(n, i)
    \/ create_container_end
    \/ \E s \in CtrNames : gen.pc = "idle" /\ remove_container(s, TRUE)
    \/ gen.pc = "idle" /\ cmd_cclean("yes")

\* the id loops step by step; between two calls rows are removed
SpecGen == Init /\ [][NextGen]_vars

\* random.choice is fair: an id that can be drawn is drawn at some turn of a
\* loop that goes on, and a loop whose select finds nothing goes on to its
\* INSERT
SpecGenFair ==
    /\ SpecGen
    /\ \A i \in ImgIds \cup CtrIds : WF_vars(gen_retry(i))
    /\ WF_vars(create_image_end)
    /\ WF_vars(create_container_end)

NextMem ==
    \/ Tick
    \/ \E size \in MemSizes : sys_mem_alloc(size, "unnamed")
    \/ \E n \in 0..(MaxBlocks - 1) : sys_mem_free(<<"0x">> \o Hex8(n))

\* the memory syscalls of MiniKernel
SpecMem == Init /\ [][NextMem]_vars

NextGui ==
    \/ \E t \in Threads : run_command_thread(t)
    \/ \E t \in Threads : thread_save(t)
    \/ \E t \in Threads : thread_set(t)
    \/ \E t \in Threads : thread_print(t)
    \/ \E t \in Threads : thread_get(t)
    \/ \E t \in Threads : thread_restore(t)

\* the command threads of the GUI, interleaved statement by statement
SpecGui == Init /\ [][NextGui]_vars

NextList ==
    \/ Tick
    \/ \E n \in ImgNames, t \in ImgTags : create_image(n, t, None)
    \/ \E n \in CtrNames, i \in ImgNames :
          create_container(n, i, "/bin/sh", None, None, None)
    \/ \E s \in CtrNames : start_container(s)
    \/ \E a \in BOOLEAN : list_containers(a)

\* the listing: containers created and started at different times
SpecList == Init /\ [][NextList]_vars

NextKeys ==
    \/ \E n \in KeysImgNames, t \in KeysImgTags : create_image(n, t, None)
    \/ \E n \in CtrNames, i \in KeysImgNames \cup ImgIds :
          create_container(n, i, "/bin/sh", None, None, None)
    \/ \E s \in CtrNames, f \in BOOLEAN : remove_container(s, f)
    \/ cmd_cclean("yes")

\* the keys: more (name, tag) pairs than image ids, as many names as
\* container ids, rows removed and ids drawn again
SpecKeys == Init /\ [][NextKeys]_vars

NextReset ==
    \/ \E n \in PkgNames : add_package(n, "1.0", 100, "a-1.0.apk", FALSE, FALSE)
    \/ \E p \in PkgNames, d \in PkgNames : add_dependency(p, d)
    \/ \E p \in HiddenPaths, c \in HiddenContents : write_hidden_file(p, c)
    \/ \E n \in ImgNames, t \in ImgTags : create_image(n, t, None)
    \/ create_container("web", "alpine", "/bin/sh", None, None, None)
    \/ start_container("web")
    \/ cmd_dbfix
    \/ \E c \in DbcleanAnswers : cmd_dbclean(c)

\* repair and reset over a store in which every writable table has rows
SpecReset == Init /\ [][NextReset]_vars

NextFault ==
    \/ Tick
    \/ \E n \in OrphanNames, sim \in BOOLEAN, af \in BOOLEAN,
          df \in SUBSET (1..MaxDepends), mf \in BOOLEAN :
          install(n, sim, af, df, mf)
    \/ \E n \in PkgNames : get_package(n)
    \/ \E n \in PkgNames : remove_package(n)
    \/ \E n \in PkgNames, rb \in BOOLEAN : remove_package_error(n, rb)

\* the package registry with a storage layer that can fail on a statement
SpecFault == Init /\ [][NextFault]_vars

NextHidden ==
    \/ Tick
    \/ \E p \in HiddenPathsWide, c \in HiddenContentsWide : write_hidden_file(p, c)
    \/ \E p \in HiddenPathsWide : read_hidden_file(p)
    \/ \E p \in HiddenPathsWide : delete_hidden_file(p)

\* the hidden filesystem: two paths written, read and deleted as time passes
SpecHidden == Init /\ [][NextHidden]_vars

NextRepair ==
    \/ \E n \in PkgNames :
          Usable("packages") /\ add_package(n, "1.0", 100, "a-1.0.apk", FALSE, FALSE)
    \/ \E n \in ImgNames, t \in ImgTags :
          Usable("images") /\ create_image(n, t, None)
    \/ Usable("containers")
          /\ create_container("web", "alpine", "/bin/sh", None, None, None)
    \/ repair_close
    \/ repair_backup
    \/ repair_dump
    \/ repair_replace
    \/ repair_discard
    \/ repair_init
    \/ repair_noconn
    \/ \E op \in StoreOps, a \in StoreArgs : storage_error(op, <<a>>)
    \/ \E op \in StoreOps, a \in StoreArgs : attribute_error(op, <<a>>)

\* repair() and the operations around it, from a store that was opened and
\* from one whose connection could not be opened
SpecRepair == (Init \/ InitNoConn) /\ [][NextRepair]_vars

------------------------------------------------------------------------------
(* Claims *)

\* the row an add_package call recorded in last must have stored
RowOfAdd(c) ==
    PackageRow(c.args[1], c.args[2], c.args[3], c.args[4], c.at, c.args[5], c.args[6])

\* C1: upsert overwrite law. After add_package(name, ...) the table holds
\* exactly one row for name, and it carries the fields of that call (the flags
\* as 0/1) and the time of the call as installed_time, whatever was stored
\* under name before; a get_package(name) that follows returns that row.
C1_UpsertOverwrite ==
    /\ [](last.op = "add_package" => SelectPackage(last.args[1]) = {RowOfAdd(last)})
    /\ [][ (last.op = "add_package" /\ last'.op = "get_package"
               /\ last'.args[1] = last.args[1])
           => last'.ret = Some(RowOfAdd(last)) ]_vars

\* C1 witness: get_package returned a row written by a second add (its time is
\* later than the first possible one) with both flags set, while the other
\* name is stored too.
C1_Witness ==
    /\ last.op = "get_package"
    /\ \E r \in last.ret : r.installed_time = 1 /\ r.auto_installed = 1
                           /\ r.simulated = 1 /\ r.version = "2.0"
    /\ Cardinality(packages) = 2

\* no dependency edge has name on either side
NoEdgeOf(name) ==
    \A d \in dependencies : d.package # name /\ d.depends_on # name

\* C2: remove_package(name) is idempotent. Every call succeeds and leaves no
\* row of name and no edge with name on either side; a second call in a row
\* succeeds and changes no table. The wrapper AddPackageManager.remove, once it
\* has succeeded, leaves the same state, and a second call in a row changes no
\* table (it reports that the package is not installed).
C2_RemoveIdempotent ==
    /\ [](last.op = "remove_package"
            => last.ret = TRUE /\ SelectPackage(last.args[1]) = {}
               /\ NoEdgeOf(last.args[1]))
    /\ []((last.op = "remove" /\ last.ret = TRUE)
            => SelectPackage(last.args[1]) = {} /\ NoEdgeOf(last.args[1]))
    /\ [][ (last.op \in {"remove_package", "remove"} /\ last'.op = last.op
               /\ last'.args = last.args /\ clock' = clock)
           => packages' = packages /\ dependencies' = dependencies ]_vars

\* C2 witness: remove_package was called twice in a row while another package
\* and an edge not naming the removed one are stored.
C2_Witness ==
    /\ last.op = "remove_package" /\ last.rep
    /\ packages # {} /\ dependencies # {}

\* A: the packages with auto_installed = 1
SetA == { r.name : r \in { q \in packages : q.auto_installed = 1 } }
\* M: the packages with auto_installed = 0
SetM == { r.name : r \in { q \in packages : q.auto_installed = 0 } }
\* N: the depends_on targets of the edges whose package is in M
SetN == { d.depends_on : d \in { e \in dependencies : e.package \in SetM } }

\* C3: get_orphaned_packages returns exactly A minus N (each name once); an
\* auto-installed D with an edge (M, D) from a manually installed M is not
\* returned.
C3_OrphanedIsAMinusN ==
    last.op = "get_orphaned_packages" =>
        /\ Range(last.ret) = SetA \ SetN
        /\ Len(last.ret) = Cardinality(SetA \ SetN)
        /\ \A e \in dependencies :
              (e.package \in SetM /\ e.depends_on \in SetA)
                 => e.depends_on \notin Range(last.ret)

\* C3 witness: a call that protects one auto-installed package through an edge
\* of a manually installed one and reports another.
C3_Witness ==
    /\ last.op = "get_orphaned_packages"
    /\ last.ret # <<>>
    /\ SetA \cap SetN # {}

\* edge (p, d) is stored
Edge(p, d) == [package |-> p, depends_on |-> d] \in dependencies

\* C4: single-level detection. An auto-installed X that no manually installed
\* package depends on directly is returned, also when an auto-installed D1
\* that a manually installed M depends on has an edge to X; D1 is not returned.
C4_SingleLevel ==
    last.op = "get_orphaned_packages" =>
        /\ \A x \in SetA :
              (\A m \in SetM : ~Edge(m, x)) => x \in Range(last.ret)
        /\ \A m \in SetM, d1 \in SetA, x \in SetA :
              (Edge(m, d1) /\ Edge(d1, x) /\ \A m2 \in SetM : ~Edge(m2, x))
                 => (x \in Range(last.ret) /\ d1 \notin Range(last.ret))

\* C4 witness: the chain bash -> openssl -> zlib with openssl and zlib
\* auto-installed; zlib is returned and openssl is not.
C4_Witness ==
    /\ last.op = "get_orphaned_packages"
    /\ "bash" \in SetM /\ "openssl" \in SetA /\ "zlib" \in SetA
    /\ Edge("bash", "openssl") /\ Edge("openssl", "zlib")
    /\ last.ret = <<"zlib">>

\* a step in which op was called (or nothing changed at all)
Step(op) == last'.op = op /\ clock' = clock

\* C5: a failed create_container mutates nothing. When the image resolves to
\* no image row or the name is the name of a container row, the call returns
\* None; and whenever it returns None, every table and the live map are as
\* before.
C5_FailedCreateFrame ==
    [][ (Step("create_container")
           /\ (\/ SelectImage(last'.args[2]) = {}
               \/ \E r \in containers : r.name = last'.args[1]
               \/ last'.ret = None))
        => (/\ last'.ret = None
            /\ containers' = containers /\ images' = images
            /\ network' = network
            /\ UNCHANGED <<pkgTables, miscTables>>) ]_vars

\* C5 witness: create_container returned None for a name that a container row
\* has, with an image that resolves.
C5_Witness ==
    /\ last.op = "create_container" /\ last.ret = None
    /\ SelectImage(last.args[2]) # {}
    /\ \E r \in containers : r.name = last.args[1]

\* the status changes a step makes to rows that stay in the table
StatusChanges ==
    { <<r.status, q.status>> : <<r, q>> \in
        { p \in containers \X containers' :
             p[1].id = p[2].id /\ p[1].status # p[2].status } }

\* the rows a step adds to the table
NewRows == { q \in containers' : q.id \notin { r.id : r \in containers } }

\* C6 as claimed: rows are created with status created, and the only status
\* changes are created -> running, running -> stopped, stopped -> running.
C6_Original ==
    [][ /\ \A q \in NewRows : q.status = "created"
        /\ StatusChanges \subseteq
              { <<"created", "running">>, <<"running", "stopped">>,
                <<"stopped", "running">> } ]_vars

\* C6 amended: rows are created with status created, and the only status
\* changes are created -> running, running -> stopped, stopped -> running
\* and created -> stopped (stop_container does not look at the status).
C6_Transitions ==
    [][ /\ \A q \in NewRows : q.status = "created"
        /\ StatusChanges \subseteq
              { <<"created", "running">>, <<"running", "stopped">>,
                <<"stopped", "running">>, <<"created", "stopped">> } ]_vars

\* C6 witness: stop_container has just stopped a container that was in status
\* created.
C6_Witness ==
    /\ last.op = "stop_container" /\ last.ret = TRUE
    /\ \E r0 \in last.row :
          /\ r0.status = "created"
          /\ \E r \in containers : r.id = r0.id /\ r.status = "stopped"

\* the rows of the table with the id of the row a call resolved
RowsOfLast == { r \in containers : \E r0 \in last.row : r.id = r0.id }

\* C7: start_container(s) succeeds exactly when s resolves to a row; the row
\* is then running with a pid and the time of the call as started_time, and
\* the live map holds, under its id, its name, its stored ip and that pid.
C7_Start ==
    last.op = "start_container" =>
        /\ (SelectContainer(last.args[1]) # {}) => last.ret = TRUE
        /\ last.ret = (last.row # None)
        /\ last.ret = TRUE =>
              /\ Cardinality(RowsOfLast) = 1
              /\ \A r \in RowsOfLast :
                    /\ r.name = last.args[1] \/ r.id = last.args[1]
                    /\ r.status = "running"
                    /\ r.pid # None
                    /\ r.started_time = Some(last.at)
                    /\ r.id \in DOMAIN network
                    /\ network[r.id].name = r.name
                    /\ network[r.id].ip = r.ip_address
                    /\ r.pid = Some(network[r.id].pid)

\* C7 witness: a stopped container was started again.
C7_Witness ==
    /\ last.op = "start_container" /\ last.ret = TRUE
    /\ \E r0 \in last.row : r0.status = "stopped"

\* C8: remove_container on the row it resolves: a running row without force
\* is refused and stays as it was; otherwise the call succeeds and no row of
\* that id is listed by list_containers(True). A name that resolves to no
\* row is refused.
C8_Remove ==
    last.op = "remove_container" =>
        /\ last.row = None => last.ret = FALSE
        /\ \A r0 \in last.row :
              IF r0.status = "running" /\ ~last.args[2]
              THEN last.ret = FALSE /\ r0 \in containers
              ELSE /\ last.ret = TRUE
                   /\ r0.id \notin { r.id : r \in SelectContainers(TRUE) }

\* C8 witness: the removal of a running container was refused.
C8_Witness ==
    /\ last.op = "remove_container" /\ last.ret = FALSE
    /\ \E r0 \in last.row : r0.status = "running" /\ r0.pid # None

\* C9: a stored container has a pid exactly when its status is running.
C9_PidIffRunning ==
    \A r \in containers : (r.pid # None) <=> (r.status = "running")

\* C9 witness: a running container with a pid beside a stopped one without,
\* after a stop.
C9_Witness ==
    /\ last.op = "stop_container" /\ last.ret = TRUE
    /\ \E r \in containers : r.status = "running" /\ r.pid # None
    /\ \E r \in containers : r.status = "stopped" /\ r.pid = None

\* an address of the bridge subnet 172.17.0.0/16
InBridgeSubnet(ip) ==
    /\ ip[1] = 172 /\ ip[2] = 17
    /\ ip[3] \in 0..255 /\ ip[4] \in 0..255

\* C10 as claimed: the addresses of containers created one after another
\* with no removal in between are strictly increasing (so pairwise distinct)
\* and inside the bridge subnet, and the first one given out on an empty
\* containers table is 172.17.0.2.
C10_Original ==
    /\ \A i \in 1..Len(ip_log.ips) : InBridgeSubnet(ip_log.ips[i])
    /\ \A i, j \in 1..Len(ip_log.ips) :
          i < j => ip_log.ips[i][4] < ip_log.ips[j][4]
    /\ (ip_log.fresh /\ ip_log.ips # <<>>) => ip_log.ips[1] = BridgeIp(2)

\* C11 as claimed: within one lifetime of the process, the keys of the map
\* network_inspect("bridge0") returns are exactly the ids of the container
\* rows whose status is running.
C11_Original ==
    DOMAIN network_inspect("bridge0").containers
       = { r.id : r \in { q \in containers : q.status = "running" } }

\* C12: remove_container never modifies the live map: whatever the call
\* returns, the map after it is the map before it, and after the forced
\* removal of a running container the entry of the removed id is still there.
C12_RemoveKeepsMap ==
    [][ Step("remove_container") =>
          /\ network' = network
          /\ \A r0 \in last'.row :
                (last'.ret = TRUE /\ r0.status = "running" /\ r0.id \in DOMAIN network)
                   => (r0.id \in DOMAIN network' /\ network'[r0.id].name = r0.name) ]_vars

\* C12 witness: a running container was removed with force; its row is gone
\* and its entry is in the map.
C12_Witness ==
    /\ last.op = "remove_container" /\ last.ret = TRUE /\ last.args[2] = TRUE
    /\ \E r0 \in last.row :
          /\ r0.status = "running"
          /\ r0.id \notin { r.id : r \in containers }
          /\ r0.id \in DOMAIN network

\* C13: stop_container on a name or id that resolves to a row succeeds and
\* leaves that row stopped, without a pid and without an entry in the live
\* map; when the row was already stopped the call succeeds and changes neither
\* a table nor the map; when nothing resolves the call fails and changes
\* nothing.
C13_Stop ==
    /\ [](last.op = "stop_container" =>
            /\ last.ret = (last.row # None)
            /\ last.row # None =>
                  /\ Cardinality(RowsOfLast) = 1
                  /\ \A r \in RowsOfLast :
                        /\ r.status = "stopped" /\ r.pid = None
                        /\ r.id \notin DOMAIN network)
    /\ [][ (Step("stop_container")
              /\ (\/ SelectContainer(last'.args[1]) = {}
                  \/ \E r0 \in last'.row : r0.status = "stopped"))
           => (/\ last'.ret = (SelectContainer(last'.args[1]) # {})
               /\ containers' = containers /\ images' = images
               /\ network' = network
               /\ UNCHANGED <<pkgTables, miscTables>>) ]_vars

\* C13 witness: a stopped container was stopped once more while another
\* container is registered in the live map.
C13_Witness ==
    /\ last.op = "stop_container" /\ last.ret = TRUE
    /\ \E r0 \in last.row : r0.status = "stopped"
    /\ DOMAIN network # {}

\* C14: exec_container returns the acknowledgement exactly when the row its
\* argument resolves to has status running (the acknowledgement names that
\* container and the command); in every other case it returns an error
\* string; the tables and the live map are never changed by it.
C14_Exec ==
    /\ [](last.op = "exec_container" =>
            /\ (last.ret[1] = "output")
                  <=> (\E r0 \in last.row : r0.status = "running")
            /\ last.ret[1] \in {"output", "error"}
            /\ \A r0 \in last.row :
                  r0.status = "running" => last.ret = ExecOutput(r0.name, last.args[2])
            /\ last.row = None => last.ret = ExecNotFound(last.args[1]))
    /\ [][ Step("exec_container") =>
             (/\ containers' = containers /\ images' = images
              /\ network' = network
              /\ UNCHANGED <<pkgTables, miscTables>>) ]_vars

\* C14 witness: the acknowledgement was returned for a running container
\* addressed by its id, while a container that is not running is stored too.
C14_Witness ==
    /\ last.op = "exec_container" /\ last.ret[1] = "output"
    /\ \E r0 \in last.row : r0.id = last.args[1] /\ r0.name # last.args[1]
    /\ \E r \in containers : r.status # "running"

\* C15: list_containers(False) returns exactly the rows whose status is
\* running and list_containers(True) returns every row, each row once and no
\* row before a row created later; the call changes no table and not the map.
C15_List ==
    /\ [](last.op = "list_containers" =>
            /\ Range(last.ret) =
                  IF last.args[1] THEN containers
                  ELSE { r \in containers : r.status = "running" }
            /\ Len(last.ret) = Cardinality(Range(last.ret))
            /\ \A i, j \in 1..Len(last.ret) :
                  i < j => last.ret[i].created_time >= last.ret[j].created_time)
    /\ [][ Step("list_containers") =>
             (/\ containers' = containers /\ images' = images
              /\ network' = network
              /\ UNCHANGED <<pkgTables, miscTables>>) ]_vars

\* C15 witness: the full list holds two containers created at different
\* times, the later one first, one of them running and the other not.
C15_Witness ==
    /\ last.op = "list_containers" /\ last.args[1] = TRUE
    /\ Len(last.ret) = 2
    /\ last.ret[1].created_time > last.ret[2].created_time
    /\ last.ret[1].status # last.ret[2].status

\* C16: create_image is idempotent on (name, tag). A call for a (name, tag)
\* that an image row has returns the id of that row and adds no row, and in
\* every reachable state at most one image row exists per (name, tag).
C16_CreateImageIdempotent ==
    /\ [](\A r, q \in images : (r.name = q.name /\ r.tag = q.tag) => r = q)
    /\ [][ (Step("create_image")
              /\ \E r \in images : r.name = last'.args[1] /\ r.tag = last'.args[2])
           => (/\ images' = images
               /\ \E r \in images :
                     /\ r.name = last'.args[1] /\ r.tag = last'.args[2]
                     /\ last'.ret = Some(r.id)) ]_vars

\* C16 witness: create_image was called twice in a row for the same name and
\* tag while an image of the same name and another tag is stored.
C16_Witness ==
    /\ last.op = "create_image" /\ last.rep
    /\ Cardinality(images) = 2
    /\ \A r \in images : r.name = last.args[1]

\* C17: key uniqueness. In every reachable state no two container rows have
\* the same id, no two container rows have the same name, and no two image
\* rows have the same id.
C17_KeyUniqueness ==
    /\ \A r, q \in containers : r.id = q.id => r = q
    /\ \A r, q \in containers : r.name = q.name => r = q
    /\ \A r, q \in images : r.id = q.id => r = q

\* C17 witness: two containers and two images are stored, the second
\* container created after a removal freed an id.
C17_Witness ==
    /\ Cardinality(containers) = 2 /\ Cardinality(images) = 2
    /\ last.op = "create_container" /\ last.ret # None
    /\ ip_log.ips # <<>> /\ ~ip_log.fresh

\* every table and the live map are left as they are by a step
NothingMutated ==
    /\ packages' = packages /\ dependencies' = dependencies
    /\ metadata' = metadata /\ hidden_files' = hidden_files
    /\ images' = images /\ containers' = containers /\ volumes' = volumes
    /\ network' = network

\* C18 as claimed: cmd_dbclean with an answer that is not exactly the phrase
\* DELETE EVERYTHING leaves every table and the live map as they were.
C18_Original ==
    [][ (Step("cmd_dbclean") /\ last'.args[1] # "DELETE EVERYTHING")
        => NothingMutated ]_vars

\* the answers that are the phrase once surrounding whitespace is removed
PhraseWithWhitespace ==
    {"DELETE EVERYTHING", " DELETE EVERYTHING ", "DELETE EVERYTHING "}

\* C18 amended: cmd_dbclean with an answer that, with surrounding whitespace
\* removed, is not exactly the phrase DELETE EVERYTHING (case included)
\* leaves every table and the live map as they were.
C18_NoPhraseNoChange ==
    [][ (Step("cmd_dbclean") /\ last'.args[1] \notin PhraseWithWhitespace)
        => (NothingMutated /\ last'.ret = None) ]_vars

\* C18 witness: the phrase in lower case was refused while the package, edge,
\* hidden file, image and container tables hold rows and a container is in
\* the live map.
C18_Witness ==
    /\ last.op = "cmd_dbclean" /\ last.args[1] = "delete everything"
    /\ last.ret = None
    /\ packages # {} /\ dependencies # {} /\ hidden_files # {}
    /\ images # {} /\ containers # {} /\ metadata # {}
    /\ DOMAIN network # {}

\* C19: after cmd_dbclean with the exact phrase each of the seven tables
\* packages, dependencies, metadata, hidden_files, images, containers and
\* volumes has zero rows, whatever they held before.
C19_ResetEmptiesTables ==
    (last.op = "cmd_dbclean" /\ last.args[1] = "DELETE EVERYTHING") =>
        /\ packages = {} /\ dependencies = {} /\ metadata = {}
        /\ hidden_files = {} /\ images = {} /\ containers = {}
        /\ volumes = {}

\* C19 witness: the reset deleted rows from every table the program ever
\* writes.
C19_Witness ==
    /\ last.op = "cmd_dbclean" /\ last.args[1] = "DELETE EVERYTHING"
    /\ \E deleted \in last.ret :
          /\ deleted.packages > 0 /\ deleted.dependencies > 0
          /\ deleted.metadata > 0 /\ deleted.hidden_files > 0
          /\ deleted.images > 0 /\ deleted.containers > 0

\* the edges with both sides in the packages table
SoundEdges ==
    { d \in dependencies :
         /\ \E r \in packages : r.name = d.package
         /\ \E r \in packages : r.name = d.depends_on }

\* C20: cmd_dbfix removes exactly the dangling edges. After it no edge has a
\* side that is no package name; the edges that stay are exactly the ones
\* that had both sides in the packages table; packages, containers, images,
\* hidden files, metadata, volumes and the live map are unchanged; a second
\* run in a row changes nothing.
C20_Diagnostics ==
    /\ [](last.op = "cmd_dbfix" => dependencies = SoundEdges)
    /\ [][ Step("cmd_dbfix") =>
             /\ dependencies' = SoundEdges
             /\ packages' = packages /\ metadata' = metadata
             /\ hidden_files' = hidden_files /\ images' = images
             /\ containers' = containers /\ volumes' = volumes
             /\ network' = network ]_vars
    /\ [][ (Step("cmd_dbfix") /\ last.op = "cmd_dbfix") => NothingMutated ]_vars

\* C20 witness: a run deleted a dangling edge and kept a sound one, with rows
\* in the other tables.
C20_Witness ==
    /\ last.op = "cmd_dbfix" /\ last.ret > 0
    /\ dependencies # {}
    /\ packages # {} /\ hidden_files # {} /\ images # {} /\ containers # {}

\* the edges with a side that is no package name, in a state given by its
\* two tables
Dangling(pkgs, deps) ==
    { d \in deps : \/ \A r \in pkgs : r.name # d.package
                   \/ \A r \in pkgs : r.name # d.depends_on }

\* C21: remove_package(name) deletes exactly the package row of name and the
\* edges with name on either side: every other package row and every edge
\* that does not involve name, dangling ones included, stays; and when no
\* edge dangles before the call none dangles after it.
C21_RemoveFrame ==
    [][ Step("remove_package") =>
          /\ packages' = { r \in packages : r.name # last'.args[1] }
          /\ dependencies' =
                { d \in dependencies :
                     d.package # last'.args[1] /\ d.depends_on # last'.args[1] }
          /\ (Dangling(packages, dependencies) = {}
                 => Dangling(packages', dependencies') = {})
          /\ UNCHANGED <<miscTables, ctrTables, network>> ]_vars

\* C21 witness: after remove_package another package row, an edge between
\* stored packages and an edge that dangled before are all still stored.
C21_Witness ==
    /\ last.op = "remove_package"
    /\ packages # {}
    /\ Dangling(packages, dependencies) # {}
    /\ dependencies \ Dangling(packages, dependencies) # {}
    /\ \A d \in dependencies :
          d.package # last.args[1] /\ d.depends_on # last.args[1]

\* the edges the index declares for a package
DeclaredEdges(n) ==
    { [package |-> n, depends_on |-> PackagesIndex[n].Depends[i].name] :
         i \in 1..Len(PackagesIndex[n].Depends) }

\* C22 as claimed: an install of a package that is not installed and is in
\* the index either makes the package row and all of its declared edges
\* visible, or leaves packages and dependencies as they were; a state with the
\* row and only part of the edges does not arise.
C22_Original ==
    [][ (Step("install") /\ SelectPackage(last'.args[1]) = {}
           /\ last'.args[1] \in DOMAIN PackagesIndex)
        => (\/ /\ \E r \in packages' : r.name = last'.args[1]
               /\ DeclaredEdges(last'.args[1]) \subseteq dependencies'
            \/ /\ packages' = packages
               /\ dependencies' = dependencies) ]_vars

\* C23 as claimed: when remove_package returns False, the package row of the
\* name and all dependency edges are, for the reads that follow, as they were
\* before the call.
C23_Original ==
    [][ (Step("remove_package") /\ last'.ret = FALSE)
        => (packages' = packages /\ dependencies' = dependencies) ]_vars

\* the rows of the hidden filesystem stored under other paths than p
OtherPaths(rows, p) == { r \in rows : r.path # p }

\* C24: hidden blob round trip and full replace. After write_hidden_file(p, b)
\* exactly one row is stored for p, with content b and size len(b), whatever
\* was stored before, and a read_hidden_file(p) that follows returns exactly
\* b; after delete_hidden_file(p) no row is stored for p and a read that
\* follows returns None; neither changes the rows of another path.
C24_HiddenRoundTrip ==
    /\ [](last.op = "write_hidden_file" =>
            \E r \in hidden_files :
               /\ { q \in hidden_files : q.path = last.args[1] } = {r}
               /\ r.content = last.args[2] /\ r.size = Len(last.args[2]))
    /\ [](last.op = "delete_hidden_file" =>
            \A q \in hidden_files : q.path # last.args[1])
    /\ [][ (Step("read_hidden_file") /\ last.op = "write_hidden_file"
              /\ last'.args[1] = last.args[1])
           => last'.ret = Some(last.args[2]) ]_vars
    /\ [][ (Step("read_hidden_file") /\ last.op = "delete_hidden_file"
              /\ last'.args[1] = last.args[1])
           => last'.ret = None ]_vars
    /\ [][ (Step("write_hidden_file") \/ Step("delete_hidden_file"))
           => OtherPaths(hidden_files', last'.args[1])
                 = OtherPaths(hidden_files, last'.args[1]) ]_vars

\* C24 witness: a read returned the one-byte content of a write made at the
\* latest time (the row of the path holds it with its size) while another
\* path is stored with a longer content.
C24_Witness ==
    /\ last.op = "read_hidden_file" /\ last.ret = Some(<<104>>)
    /\ \E r \in hidden_files :
          /\ r.path = last.args[1] /\ r.size = 1
          /\ r.created_time = MaxClock
    /\ \E r \in hidden_files : r.path # last.args[1] /\ r.size = 2

\* C25 as claimed: write_hidden_file on a path that has a row keeps the
\* created_time of the row and does not move modified_time back; on a path
\* without a row it sets both times to the time of the call.
C25_Original ==
    [][ Step("write_hidden_file") =>
          \A q \in { r \in hidden_files' : r.path = last'.args[1] } :
             IF \E r \in hidden_files : r.path = last'.args[1]
             THEN \A r \in hidden_files :
                     r.path = last'.args[1] =>
                        /\ q.created_time = r.created_time
                        /\ q.modified_time >= r.modified_time
             ELSE q.created_time = clock /\ q.modified_time = clock ]_vars

\* C30 as claimed: no two containers registered in the live map at the same
\* time have the same ip address.
C30_Original ==
    \A a, b \in DOMAIN network_inspect("bridge0").containers :
       a # b => network[a].ip # network[b].ip

\* every table of the persisted schema has zero rows
ZeroRows ==
    /\ packages = {} /\ dependencies = {} /\ metadata = {}
    /\ hidden_files = {} /\ images = {} /\ containers = {} /\ volumes = {}

\* C26 as claimed: a repair() that returned True ends either with the package
\* and container rows the store held when it began, or, on the fallback path,
\* with zero rows and a complete backup file; never with only part of the
\* rows.
C26_Original ==
    (last.op = "repair" /\ last.ret = TRUE) =>
        \E b \in last.before :
           \/ packages = b.packages /\ containers = b.containers
           \/ last.path = "fallback" /\ ZeroRows /\ last.backup = "complete"

\* C27 as claimed: after a repair() that completed through the fallback path
\* every table of the persisted schema exists and has zero rows.
C27_Original ==
    (last.op = "repair" /\ last.ret = TRUE /\ last.path = "fallback") =>
        /\ schema = DatabaseTables \cup ContainerTables
        /\ ZeroRows

\* C28 as claimed: no operation of the store raises to its caller, whatever
\* state the connection is in.
C28_Original == "exc" \notin DOMAIN last

\* C29: repair ordering. The path db_path never holds a partly written file,
\* and the step that replaces the original file (os.replace) or deletes it
\* (os.remove) is taken only when the backup copy of this repair is complete;
\* until that step the rows of the file are the rows it had when repair()
\* began.
C29_RepairOrdering ==
    /\ [](dbfile \in {"complete", "absent"})
    /\ [][ (repair.step \in {"dumped", "fallback"} /\ repair'.step = "reinit")
           => repair.backup = "complete" ]_vars
    /\ [](repair.step \in {"closed", "backed_up", "dumped", "fallback"}
            => (dbfile = "complete" /\ repair.before = Some(Content)))

\* C29 witness: a repair() that took the fallback path on a file with package
\* and container rows has returned True with a complete backup.
C29_Witness ==
    /\ last.op = "repair" /\ last.ret = TRUE /\ last.path = "fallback"
    /\ last.backup = "complete"
    /\ \E b \in last.before : b.packages # {} /\ b.containers # {}
    /\ ZeroRows

\* the rows of containers with status running
RunningRows == { r \in containers : r.status = "running" }

\* C31: in one lifetime of the process that starts with no container and
\* uses only create_container, start_container, stop_container and
\* remove_container without force, the keys of the live map are the ids of
\* the running rows, and the ip and pid of each entry are the ip_address and
\* pid stored in its row.
C31_MapMatchesRows ==
    /\ DOMAIN network = { r.id : r \in RunningRows }
    /\ \A r \in RunningRows :
          /\ network[r.id].ip = r.ip_address
          /\ Some(network[r.id].pid) = r.pid

\* C31 witness: a non-forced removal succeeded while another container is
\* running and registered with an address that is not the first one.
C31_Witness ==
    /\ last.op = "remove_container" /\ last.ret = TRUE
    /\ \E r \in RunningRows :
          r.id \in DOMAIN network /\ network[r.id].ip # BridgeIp(2)
\* C32: an autoremove that went through (it returns True) removes exactly the
\* rows of the packages get_orphaned_packages lists at its start, every row
\* it removes was installed automatically, and right after it
\* get_orphaned_packages lists nothing.
C32_Autoremove ==
    [][ (Step("autoremove") /\ last'.ret = TRUE) =>
          /\ packages' = { r \in packages : r.name \notin Range(Orphaned(Needed)) }
          /\ \A r \in packages \ packages' : r.auto_installed = 1
          /\ (Orphaned(Needed))' = <<>> ]_vars

\* C32 witness: a confirmed autoremove has just removed one orphan, and a
\* manually installed package is left together with the automatically
\* installed package it depends on.
C32_Witness ==
    /\ last.op = "autoremove" /\ last.ret = TRUE /\ Len(last.orphaned) = 1
    /\ \E m, d \in packages :
          /\ m.auto_installed = 0 /\ d.auto_installed = 1
          /\ [package |-> m.name, depends_on |-> d.name] \in dependencies
\* C33: in the states reached by install, remove and autoremove alone no
\* package row has auto_installed = 1 and get_orphaned_packages lists
\* nothing; an install adds no row other than a manually installed row of
\* the package it was asked for (its dependencies get edges, not rows).
C33_NoAutoInstalled ==
    /\ [](/\ \A r \in packages : r.auto_installed = 0
          /\ Orphaned(Needed) = <<>>
          /\ (last.op = "get_orphaned_packages" => last.ret = <<>>))
    /\ [][ Step("install") =>
             \A r \in packages' \ packages :
                r.name = last'.args[1] /\ r.auto_installed = 0 ]_vars

\* C33 witness: get_orphaned_packages was called while bash is installed
\* with its two edges and neither openssl nor zlib has a row.
C33_Witness ==
    /\ last.op = "get_orphaned_packages"
    /\ { r.name : r \in packages } = {"bash"}
    /\ { d.depends_on : d \in dependencies } = {"openssl", "zlib"}
\* C34: install of a package that has a row returns True and leaves the row
\* (version, size, simulated, installed_time), every dependency edge and the
\* metadata as they were.
C34_InstallInstalled ==
    [][ (Step("install") /\ SelectPackage(last'.args[1]) # {}) =>
          /\ last'.ret = TRUE
          /\ packages' = packages
          /\ dependencies' = dependencies
          /\ metadata' = metadata ]_vars

\* C34 witness: install was called on a package installed at an earlier time
\* with the other value of simulate, and the row kept both.
C34_Witness ==
    /\ last.op = "install" /\ last.ret = TRUE
    /\ \E r \in packages :
          /\ r.name = last.args[1]
          /\ r.installed_time < last.at
          /\ r.simulated # BoolToInt(last.args[2])
\* C35 as claimed: for every string s at most one container row has
\* name = s or id = s, so a call given s acts on one determined container.
C35_Original ==
    \A s \in CtrNames \cup CtrIds : Cardinality(SelectContainer(s)) <= 1
\* C36: in every state reached through create_image, create_container,
\* start, stop, remove, cclean and dbclean, the image_id of each container
\* row is the id of a row of images.
C36_ImageExists ==
    \A c \in containers : \E i \in images : i.id = c.image_id

\* C36 witness: a second container was just created from an image given by
\* its name, and the image has the id img_b while no row has img_a.
C36_Witness ==
    /\ last.op = "create_container" /\ last.ret # None
    /\ last.args[2] \in ImgNames
    /\ Cardinality(containers) = 2
    /\ { i.id : i \in images } = {"img_b"}
\* C37: an id loop of create_image or create_container that runs while some
\* id of its generator is in no row of its table ends, and the id it ends
\* with (the one the call returns) is in no row of the table.
C37_IdLoopTerminates ==
    /\ \A p \in {"img_", "ctr_"} :
          (gen.pc = "check" /\ gen.prefix = p /\ FreeIds(p) # {}) ~> (gen.pc = "idle")
    /\ [][ (gen.pc = "check" /\ gen'.pc = "idle") =>
             /\ ~IdTaken(gen.prefix, gen.id)
             /\ last'.ret = Some(gen.id) ]_vars

\* C37 witness: the loop of create_container holds an id that a row already
\* has while the other id is free.
C37_Witness ==
    /\ gen.pc = "check" /\ gen.prefix = "ctr_"
    /\ IdTaken(gen.prefix, gen.id)
    /\ FreeIds(gen.prefix) # {}
\* C38 as claimed: sys_mem_alloc returns an address that no block has, every
\* block stored before the call is still there unchanged, and the number of
\* blocks grows by exactly one.
C38_Original ==
    [][ Step("mem_alloc") =>
          /\ last'.ret \notin DOMAIN memory
          /\ \A a \in DOMAIN memory : a \in DOMAIN memory' /\ memory'[a] = memory[a]
          /\ Cardinality(DOMAIN memory') = Cardinality(DOMAIN memory) + 1 ]_vars

\* every thread that was started has finished
AllFinished == \A t \in Threads : threads[t].pc \in {"new", "done"}

\* C39 as claimed: once every command thread that was launched has finished,
\* sys.stdout is the stream it was before the first command, and what each
\* finished thread emitted is the output of its own command and nothing else.
C39_Original ==
    /\ AllFinished => sys_stdout = OriginalStdout
    /\ \A t \in Threads :
          threads[t].pc = "done" =>
             threads[t].output = [ kind |-> "output", text |-> <<t>> ]
====
